---- MODULE Spec2Model ----
(***************************************************************************)
(* A model of go-gitcfg: the Git-style configuration parser, the merged    *)
(* two-level store (section -> key -> value), the typed accessors and the  *)
(* lock-guarded reload.                                                    *)
(*                                                                         *)
(* Go strings are modelled as sequences of one-character strings, so that  *)
(* splitting, trimming, validation and conversion are computed the way the *)
(* code computes them.  Maps are functions with a finite domain.           *)
(***************************************************************************)
EXTENDS Integers, Sequences, FiniteSets, TLC

VARIABLES
    fs,        \* the file system: path -> name of the file's content, NoFile or NoAccess
    writes,    \* how many times the environment changed a file
    cfg,       \* the shared *Config: [loaded, sections, sources]
    mu,        \* c.mu, the sync.RWMutex of cfg: [writer, readers]
    rl,        \* the Reload calls in flight: pid -> local state of ReloadWithContext
    rd,        \* the read accessor in flight: its position and what it has copied
    res,       \* the result of the last completed call
    pub,       \* the last store handed over whole: by a load, or by a reload's unlock
    ps,        \* a parse in progress: the parser's locals and the source it reads
    log        \* the successful writes so far: composed key -> what was written last

vars == <<fs, writes, cfg, mu, rl, rd, res, pub, ps, log>>

-----------------------------------------------------------------------------
(* Characters and strings                                                  *)

LowerSeq == <<"a","b","c","d","e","f","g","h","i","j","k","l","m",
              "n","o","p","q","r","s","t","u","v","w","x","y","z">>
UpperSeq == <<"A","B","C","D","E","F","G","H","I","J","K","L","M",
              "N","O","P","Q","R","S","T","U","V","W","X","Y","Z">>
DigitSeq == <<"0","1","2","3","4","5","6","7","8","9">>

Range(s) == { s[i] : i \in DOMAIN s }

Letters == Range(LowerSeq) \cup Range(UpperSeq)
Uppers  == Range(UpperSeq)
Digits  == Range(DigitSeq)
Spaces  == {" ", "\t", "\n", "\r", "\f"}

\* unicode.IsLetter / unicode.IsDigit / unicode.IsSpace on the model's alphabet
IsLetter(ch) == ch \in Letters
IsDigit(ch)  == ch \in Digits
IsSpace(ch)  == ch \in Spaces

\* unicode.ToLower of one character
ToLowerCh(ch) ==
    IF ch \in Uppers
    THEN LowerSeq[CHOOSE i \in DOMAIN UpperSeq : UpperSeq[i] = ch]
    ELSE ch

\* strings.ToLower
ToLower(s) == [i \in DOMAIN s |-> ToLowerCh(s[i])]

\* strings.Contains(s, ch) for a one-character separator
Contains(s, ch) == \E i \in DOMAIN s : s[i] = ch

\* strings.Index(s, ch): 1-based position of the first ch, 0 if there is none
RECURSIVE IndexFrom(_, _, _)
IndexFrom(s, ch, i) ==
    IF i > Len(s) THEN 0
    ELSE IF s[i] = ch THEN i
    ELSE IndexFrom(s, ch, i + 1)

Index(s, ch) == IndexFrom(s, ch, 1)

\* strings.SplitN(s, ch, 2): one part when ch does not occur, else the text
\* before the first ch and everything after it
SplitN2(s, ch) ==
    LET i == Index(s, ch) IN
    IF i = 0 THEN <<s>>
    ELSE <<SubSeq(s, 1, i-1), SubSeq(s, i+1, Len(s))>>

\* strings.Split(s, ch): every ch separates
RECURSIVE Split(_, _)
Split(s, ch) ==
    LET i == Index(s, ch) IN
    IF i = 0 THEN <<s>>
    ELSE <<SubSeq(s, 1, i-1)>> \o Split(SubSeq(s, i+1, Len(s)), ch)

\* strings.TrimSpace
RECURSIVE TrimLeft(_)
TrimLeft(s) ==
    IF s # <<>> /\ IsSpace(Head(s)) THEN TrimLeft(Tail(s)) ELSE s

RECURSIVE TrimRight(_)
TrimRight(s) ==
    IF s # <<>> /\ IsSpace(s[Len(s)]) THEN TrimRight(SubSeq(s, 1, Len(s)-1)) ELSE s

TrimSpace(s) == TrimRight(TrimLeft(s))

\* map[k] = v on a Go map modelled as a function
Put(m, k, v) == [x \in (DOMAIN m) \cup {k} |-> IF x = k THEN v ELSE m[x]]

EmptyMap == [x \in {} |-> x]

-----------------------------------------------------------------------------
(* Errors                                                                  *)

NoErr               == "nil"
ErrKeyNotFound      == "ErrKeyNotFound"
ErrSectionNotFound  == "ErrSectionNotFound"
ErrInvalidKeyFormat == "ErrInvalidKeyFormat"
ErrInvalidValue     == "ErrInvalidValue"
ErrSyntax           == "ErrSyntax"        \* strconv.ErrSyntax
ErrRange            == "ErrRange"         \* strconv.ErrRange
ErrOpen             == "ErrOpen"          \* the os error of a failed os.Open
ErrCanceled         == "ErrCanceled"      \* ctx.Err() of a cancelled context
ErrGit              == "ErrGit"           \* the git command failed or did not start
ErrRepoPath         == "ErrRepoPath"      \* validateRepoPath failed

-----------------------------------------------------------------------------
(* Key and section validation                                              *)

\* isValidKeyName with the bug of testing only that the name is not empty
isValidKeyNameNonEmpty(name) == name # <<>>

\* isValidKeyName with the bug of taking '.' for a character of a key name
isValidKeyNameDotted(name) ==
    /\ name # <<>>
    /\ \A i \in DOMAIN name :
          IsLetter(name[i]) \/ IsDigit(name[i]) \/ name[i] \in {".", "-", "_"}

isValidKeyName(name) ==
    /\ name # <<>>
    /\ \A i \in DOMAIN name :
          IsLetter(name[i]) \/ IsDigit(name[i]) \/ name[i] = "-" \/ name[i] = "_"

isValidConfigKey(key) ==
    /\ key # <<>>
    /\ Contains(key, ".")
    /\ \A i \in DOMAIN key :
          IsLetter(key[i]) \/ IsDigit(key[i]) \/ key[i] \in {".", "-", "_"}

\* a quoted subsection: at least two characters, first and last a double quote
IsQuoted(s) == Len(s) >= 2 /\ s[1] = "\"" /\ s[Len(s)] = "\""

isValidSectionName(name) ==
    /\ name # <<>>
    /\ IF Contains(name, " ")
       THEN LET parts == SplitN2(name, " ") IN
            /\ Len(parts) = 2
            /\ isValidKeyName(parts[1])
            /\ IsQuoted(TrimSpace(parts[2]))
       ELSE isValidKeyName(name)

isValidSubsectionName(name) ==
    /\ name # <<>>
    /\ Contains(name, ".")
    /\ LET parts == Split(name, ".") IN
       \A i \in DOMAIN parts : isValidKeyName(parts[i])

-----------------------------------------------------------------------------
(* Key decomposition                                                       *)

\* parseConfigKey with the bug of moving every segment but the last into the
\* section
parseConfigKeyDeep(key) ==
    LET parts == Split(key, ".") IN
    IF Len(parts) < 2
    THEN [section |-> <<>>, keyName |-> <<>>, err |-> ErrInvalidKeyFormat]
    ELSE [section |-> SubSeq(key, 1, Len(key) - Len(parts[Len(parts)]) - 1),
          keyName |-> parts[Len(parts)], err |-> NoErr]

\* parseConfigKey with the bug of taking a key with no dot as a key of the
\* section of no name
parseConfigKeyBare(key) ==
    LET parts == SplitN2(key, ".") IN
    IF Len(parts) # 2
    THEN [section |-> <<>>, keyName |-> key, err |-> NoErr]
    ELSE IF Contains(parts[2], ".")
         THEN LET subparts == SplitN2(parts[2], ".") IN
              [section |-> parts[1] \o <<".">> \o subparts[1],
               keyName |-> subparts[2], err |-> NoErr]
         ELSE [section |-> parts[1], keyName |-> parts[2], err |-> NoErr]

parseConfigKey(key) ==
    LET parts == SplitN2(key, ".") IN
    IF Len(parts) # 2
    THEN [section |-> <<>>, keyName |-> <<>>, err |-> ErrInvalidKeyFormat]
    ELSE IF Contains(parts[2], ".")
         THEN LET subparts == SplitN2(parts[2], ".") IN
              [section |-> parts[1] \o <<".">> \o subparts[1],
               keyName |-> subparts[2], err |-> NoErr]
         ELSE [section |-> parts[1], keyName |-> parts[2], err |-> NoErr]

-----------------------------------------------------------------------------
(* The store: Config.sections, and the write path                          *)

\* StoreValue with the bug of keeping the first value written to a key
StoreValueKeepFirst(sections, section, remaining, value) ==
    IF section \in DOMAIN sections /\ remaining \in DOMAIN sections[section]
    THEN sections
    ELSE Put(sections, section,
             Put(IF section \in DOMAIN sections THEN sections[section] ELSE EmptyMap,
                 remaining, value))

\* StoreValue with the bug of replacing the section by one that holds only
\* the key written
StoreValueNewSection(sections, section, remaining, value) ==
    Put(sections, section, Put(EmptyMap, remaining, value))

\* c.sections[section][remaining] = value, creating the section map if absent
StoreValue(sections, section, remaining, value) ==
    Put(sections, section,
        Put(IF section \in DOMAIN sections THEN sections[section] ELSE EmptyMap,
            remaining, value))

\* Config.setRawValue: the error it returns and the sections afterwards
setRawValue(sections, key, value) ==
    IF ~isValidConfigKey(key)
    THEN [err |-> ErrInvalidKeyFormat, sections |-> sections]
    ELSE LET k == parseConfigKey(key) IN
         IF k.err # NoErr
         THEN [err |-> k.err, sections |-> sections]
         ELSE IF ~isValidSectionName(k.section) /\ ~isValidSubsectionName(k.section)
         THEN [err |-> ErrInvalidKeyFormat, sections |-> sections]
         ELSE IF ~isValidKeyName(k.keyName)
         THEN [err |-> ErrInvalidKeyFormat, sections |-> sections]
         ELSE [err |-> NoErr,
               sections |-> StoreValue(sections, k.section, k.keyName, value)]

-----------------------------------------------------------------------------
(* Typed conversion                                                         *)

\* parseBool with the bug of comparing the value without trimming it
parseBoolNoTrim(value) ==
    IF value = <<>>
    THEN [err |-> NoErr, val |-> TRUE]
    ELSE LET lower == ToLower(value) IN
         IF lower \in { <<"t","r","u","e">>, <<"y","e","s">>, <<"o","n">>, <<"1">> }
         THEN [err |-> NoErr, val |-> TRUE]
         ELSE IF lower \in { <<"f","a","l","s","e">>, <<"n","o">>, <<"o","f","f">>, <<"0">> }
         THEN [err |-> NoErr, val |-> FALSE]
         ELSE [err |-> "invalid boolean value", val |-> FALSE]

parseBool(value) ==
    IF value = <<>>
    THEN [err |-> NoErr, val |-> TRUE]
    ELSE LET lower == ToLower(TrimSpace(value)) IN
         IF lower \in { <<"t","r","u","e">>, <<"y","e","s">>, <<"o","n">>, <<"1">> }
         THEN [err |-> NoErr, val |-> TRUE]
         ELSE IF lower \in { <<"f","a","l","s","e">>, <<"n","o">>, <<"o","f","f">>, <<"0">> }
         THEN [err |-> NoErr, val |-> FALSE]
         ELSE [err |-> "invalid boolean value", val |-> FALSE]

DigitVal(ch) == (CHOOSE i \in DOMAIN DigitSeq : DigitSeq[i] = ch) - 1

RECURSIVE Pow2(_)
Pow2(n) == IF n = 0 THEN 1 ELSE 2 * Pow2(n - 1)

\* strconv.ParseUint(s, 10, bitSize): digits only, no sign; the accumulation
\* stops at the first value above the maximum (ErrRange), as the code's
\* overflow test does
RECURSIVE AccDigits(_, _, _)
AccDigits(s, acc, max) ==
    IF s = <<>> THEN acc
    ELSE IF acc > max THEN acc
    ELSE AccDigits(Tail(s), acc * 10 + DigitVal(Head(s)), max)

ParseUint(s, bitSize) ==
    IF s = <<>> \/ \E i \in DOMAIN s : ~IsDigit(s[i])
    THEN [err |-> ErrSyntax, val |-> 0]
    ELSE LET max == Pow2(bitSize) - 1
             n   == AccDigits(s, 0, max) IN
         IF n > max THEN [err |-> ErrRange, val |-> max]
         ELSE [err |-> NoErr, val |-> n]

\* ParseInt with the bug of keeping the low bits of a number that does not
\* fit the width, as int8(v) does to an int64 parsed without the width
ParseIntWrap(s, bitSize) ==
    IF s = <<>> THEN [err |-> ErrSyntax, val |-> 0]
    ELSE LET neg  == s[1] = "-"
             body == IF s[1] \in {"+", "-"} THEN Tail(s) ELSE s
             un   == ParseUint(body, bitSize + 4) IN
         IF un.err # NoErr THEN [err |-> un.err, val |-> 0]
         ELSE LET n == ((IF neg THEN -un.val ELSE un.val) + Pow2(bitSize - 1)) % Pow2(bitSize)
              IN [err |-> NoErr, val |-> n - Pow2(bitSize - 1)]

\* strconv.ParseInt(s, 10, bitSize): an optional sign, then ParseUint, then
\* the range test of the signed width
ParseInt(s, bitSize) ==
    IF s = <<>> THEN [err |-> ErrSyntax, val |-> 0]
    ELSE LET neg    == s[1] = "-"
             body   == IF s[1] \in {"+", "-"} THEN Tail(s) ELSE s
             cutoff == Pow2(bitSize - 1)
             un     == ParseUint(body, bitSize) IN
         IF un.err = ErrSyntax THEN [err |-> ErrSyntax, val |-> 0]
         ELSE IF un.err = ErrRange THEN [err |-> ErrRange, val |-> 0]
         ELSE IF ~neg /\ un.val >= cutoff THEN [err |-> ErrRange, val |-> cutoff - 1]
         ELSE IF neg /\ un.val > cutoff THEN [err |-> ErrRange, val |-> -cutoff]
         ELSE [err |-> NoErr, val |-> IF neg THEN -un.val ELSE un.val]

\* the types T of Get[T] the model covers
Types == {"string", "bool", "int8", "int16", "uint8", "uint16"}

Zero(T) == CASE T = "string" -> <<>>
             [] T = "bool"   -> FALSE
             [] OTHER        -> 0

\* convertValue[T]: every conversion failure is wrapped in ErrInvalidValue
convertValue(T, value) ==
    LET r == CASE T = "string" -> [err |-> NoErr, val |-> value]
               [] T = "int8"   -> ParseInt(value, 8)
               [] T = "int16"  -> ParseInt(value, 16)
               [] T = "uint8"  -> ParseUint(value, 8)
               [] T = "uint16" -> ParseUint(value, 16)
               [] T = "bool"   -> parseBool(value)
               [] OTHER        -> [err |-> "unsupported type", val |-> 0]
    IN IF r.err # NoErr
       THEN [err |-> ErrInvalidValue, val |-> Zero(T)]
       ELSE [err |-> NoErr, val |-> r.val]

-----------------------------------------------------------------------------
(* Read accessors (each runs under the read lock)                           *)

\* Get with the bug of cutting the key at its first dot only, as Has does
GetFlat(T, sections, key) ==
    LET parts == SplitN2(key, ".") IN
    IF Len(parts) # 2
    THEN [err |-> ErrInvalidKeyFormat, val |-> Zero(T), key |-> key, section |-> <<>>]
    ELSE IF parts[1] \notin DOMAIN sections
    THEN [err |-> ErrSectionNotFound, val |-> Zero(T), key |-> parts[2], section |-> parts[1]]
    ELSE IF parts[2] \notin DOMAIN sections[parts[1]]
    THEN [err |-> ErrKeyNotFound, val |-> Zero(T), key |-> parts[2], section |-> parts[1]]
    ELSE LET c == convertValue(T, sections[parts[1]][parts[2]]) IN
         [err |-> c.err, val |-> c.val, key |-> parts[2], section |-> parts[1]]

\* Get with the bug of reporting a missing section as a missing key
GetNoSectionError(T, sections, key) ==
    LET k == parseConfigKey(key) IN
    IF k.err # NoErr
    THEN [err |-> k.err, val |-> Zero(T), key |-> key, section |-> <<>>]
    ELSE IF k.section \notin DOMAIN sections \/ k.keyName \notin DOMAIN sections[k.section]
    THEN [err |-> ErrKeyNotFound, val |-> Zero(T),
          key |-> k.keyName, section |-> k.section]
    ELSE LET c == convertValue(T, sections[k.section][k.keyName]) IN
         [err |-> c.err, val |-> c.val, key |-> k.keyName, section |-> k.section]

\* Get with the bug of looking the key up in lower case, as git does
GetFoldCase(T, sections, key) ==
    LET k == parseConfigKey(ToLower(key)) IN
    IF k.err # NoErr
    THEN [err |-> k.err, val |-> Zero(T), key |-> key, section |-> <<>>]
    ELSE IF k.section \notin DOMAIN sections
    THEN [err |-> ErrSectionNotFound, val |-> Zero(T),
          key |-> k.keyName, section |-> k.section]
    ELSE IF k.keyName \notin DOMAIN sections[k.section]
    THEN [err |-> ErrKeyNotFound, val |-> Zero(T),
          key |-> k.keyName, section |-> k.section]
    ELSE LET c == convertValue(T, sections[k.section][k.keyName]) IN
         IF c.err # NoErr
         THEN [err |-> c.err, val |-> Zero(T),
               key |-> k.keyName, section |-> k.section]
         ELSE [err |-> NoErr, val |-> c.val,
               key |-> k.keyName, section |-> k.section]

\* Get[T](c, key)
Get(T, sections, key) ==
    LET k == parseConfigKey(key) IN
    IF k.err # NoErr
    THEN [err |-> k.err, val |-> Zero(T), key |-> key, section |-> <<>>]
    ELSE IF k.section \notin DOMAIN sections
    THEN [err |-> ErrSectionNotFound, val |-> Zero(T),
          key |-> k.keyName, section |-> k.section]
    ELSE IF k.keyName \notin DOMAIN sections[k.section]
    THEN [err |-> ErrKeyNotFound, val |-> Zero(T),
          key |-> k.keyName, section |-> k.section]
    ELSE LET c == convertValue(T, sections[k.section][k.keyName]) IN
         IF c.err # NoErr
         THEN [err |-> c.err, val |-> Zero(T),
               key |-> k.keyName, section |-> k.section]
         ELSE [err |-> NoErr, val |-> c.val,
               key |-> k.keyName, section |-> k.section]

\* GetWithDefault with the bug of returning Get's value also when Get failed
GetWithDefaultZero(T, sections, key, defaultValue) == Get(T, sections, key).val

\* GetWithDefault[T](c, key, defaultValue)
GetWithDefault(T, sections, key, defaultValue) ==
    LET g == Get(T, sections, key) IN
    IF g.err # NoErr THEN defaultValue ELSE g.val

\* the two values a caller of Get receives: the error and the value
StrOk(v) == [err |-> NoErr, val |-> v]

Result(g) == [err |-> g.err, val |-> g.val]

\* Config.Has
Has(sections, key) ==
    LET parts == SplitN2(key, ".") IN
    /\ Len(parts) = 2
    /\ parts[1] \in DOMAIN sections
    /\ parts[2] \in DOMAIN sections[parts[1]]

\* Config.GetKeys: section + "." + key for every entry
GetKeys(sections) ==
    { s \o <<".">> \o k : <<s, k>> \in
        { <<s2, k2>> \in (DOMAIN sections) \X UNION { DOMAIN sections[x] : x \in DOMAIN sections } :
            k2 \in DOMAIN sections[s2] } }

-----------------------------------------------------------------------------
(* Value normalisation: strconv.Unquote on a double-quoted value           *)

HexDigits == Digits \cup {"a","b","c","d","e","f","A","B","C","D","E","F"}

HexVal(ch) ==
    IF IsDigit(ch) THEN DigitVal(ch)
    ELSE 9 + (CHOOSE i \in 1..6 : LowerSeq[i] = ToLowerCh(ch))

\* the character with code point v: letters, digits and the space are the
\* model's own characters, every other code point is named by its number
Chr(v) ==
    IF v \in 48..57 THEN DigitSeq[v - 47]
    ELSE IF v \in 65..90 THEN UpperSeq[v - 64]
    ELSE IF v \in 97..122 THEN LowerSeq[v - 96]
    ELSE IF v = 32 THEN " "
    ELSE IF v = 34 THEN "\""
    ELSE IF v = 92 THEN "\\"
    ELSE IF v = 9 THEN "\t"
    ELSE IF v = 10 THEN "\n"
    ELSE IF v = 13 THEN "\r"
    ELSE IF v = 12 THEN "\f"
    ELSE "U+" \o ToString(v)

\* the value of the first n hex digits of s, -1 when s has fewer than n or a
\* character that is no hex digit
RECURSIVE HexN(_, _, _)
HexN(s, n, acc) ==
    IF n = 0 THEN acc
    ELSE IF s = <<>> \/ Head(s) \notin HexDigits THEN -1
    ELSE IF acc > 1114111 THEN HexN(Tail(s), n - 1, acc)
    ELSE HexN(Tail(s), n - 1, acc * 16 + HexVal(Head(s)))

\* strconv.UnquoteChar on a text that starts with a backslash, inside double
\* quotes: [ok, ch, used] where used is the number of characters consumed
UnquoteEscape(in) ==
    LET bad == [ok |-> FALSE, ch |-> "", used |-> 0] IN
    IF Len(in) <= 1 THEN bad
    ELSE LET c == in[2]
             rest == SubSeq(in, 3, Len(in)) IN
         CASE c = "a"  -> [ok |-> TRUE, ch |-> Chr(7),  used |-> 2]
           [] c = "b"  -> [ok |-> TRUE, ch |-> Chr(8),  used |-> 2]
           [] c = "f"  -> [ok |-> TRUE, ch |-> "\f", used |-> 2]
           [] c = "n"  -> [ok |-> TRUE, ch |-> "\n", used |-> 2]
           [] c = "r"  -> [ok |-> TRUE, ch |-> "\r", used |-> 2]
           [] c = "t"  -> [ok |-> TRUE, ch |-> "\t", used |-> 2]
           [] c = "v"  -> [ok |-> TRUE, ch |-> Chr(11), used |-> 2]
           [] c = "\\" -> [ok |-> TRUE, ch |-> "\\", used |-> 2]
           [] c = "\"" -> [ok |-> TRUE, ch |-> "\"", used |-> 2]
           [] c = "x"  -> LET v == HexN(rest, 2, 0) IN
                          IF v < 0 THEN bad
                          ELSE [ok |-> TRUE, ch |-> Chr(v), used |-> 4]
           [] c = "u"  -> LET v == HexN(rest, 4, 0) IN
                          IF v < 0 \/ v \in 55296..57343 THEN bad
                          ELSE [ok |-> TRUE, ch |-> Chr(v), used |-> 6]
           [] c = "U"  -> LET v == HexN(rest, 8, 0) IN
                          IF v < 0 \/ v \in 55296..57343 \/ v > 1114111 THEN bad
                          ELSE [ok |-> TRUE, ch |-> Chr(v), used |-> 10]
           [] c \in {"0","1","2","3","4","5","6","7"} ->
                          IF Len(in) < 4
                             \/ \E i \in 3..4 : in[i] \notin {"0","1","2","3","4","5","6","7"}
                          THEN bad
                          ELSE LET v == 64 * DigitVal(in[2]) + 8 * DigitVal(in[3])
                                        + DigitVal(in[4]) IN
                               IF v > 255 THEN bad
                               ELSE [ok |-> TRUE, ch |-> Chr(v), used |-> 4]
           [] OTHER    -> bad

\* the loop of strconv.unquote after the opening quote: characters up to the
\* terminating quote, which must be the last character
RECURSIVE UnquoteLoop(_, _)
UnquoteLoop(in, acc) ==
    IF in = <<>> THEN [err |-> ErrSyntax, val |-> <<>>]
    ELSE IF in[1] = "\""
    THEN IF Len(in) > 1 THEN [err |-> ErrSyntax, val |-> <<>>]
         ELSE [err |-> NoErr, val |-> acc]
    ELSE IF in[1] = "\n" THEN [err |-> ErrSyntax, val |-> <<>>]
    ELSE IF in[1] # "\\" THEN UnquoteLoop(Tail(in), Append(acc, in[1]))
    ELSE LET e == UnquoteEscape(in) IN
         IF ~e.ok THEN [err |-> ErrSyntax, val |-> <<>>]
         ELSE UnquoteLoop(SubSeq(in, e.used + 1, Len(in)), Append(acc, e.ch))

\* buildFullKey with the bug of taking every header as a plain section
buildFullKeyPlain(section, key) ==
    IF section = <<>> THEN key ELSE section \o <<".">> \o key

\* strconv.Unquote of a text whose first character is a double quote
Unquote(s) == UnquoteLoop(Tail(s), <<>>)

\* processQuotedValue with the bug of dropping the two quotes and keeping
\* the escapes between them as they are
processQuotedValueStrip(value) ==
    IF IsQuoted(value)
    THEN [err |-> NoErr, val |-> SubSeq(value, 2, Len(value) - 1)]
    ELSE [err |-> NoErr, val |-> value]

processQuotedValue(value) ==
    IF IsQuoted(value) THEN Unquote(value) ELSE [err |-> NoErr, val |-> value]

-----------------------------------------------------------------------------
(* Key composition                                                          *)

buildFullKey(section, key) ==
    IF section = <<>> THEN key
    ELSE IF Contains(section, " ")
            /\ IsQuoted(TrimSpace(SplitN2(section, " ")[2]))
    THEN LET parts == SplitN2(section, " ")
             subsection == TrimSpace(parts[2]) IN
         parts[1] \o <<".">> \o SubSeq(subsection, 2, Len(subsection) - 1)
                  \o <<".">> \o key
    ELSE section \o <<".">> \o key

-----------------------------------------------------------------------------
(* The line parser                                                          *)

\* commentRegex  ^\s*[#;]
IsCommentLine(line) ==
    LET t == TrimLeft(line) IN t # <<>> /\ t[1] \in {"#", ";"}

\* sectionRegex  ^\s*\[([^\]]+)\]\s*$  : [ok, name] with name the capture
SectionMatch(line) ==
    LET t == TrimLeft(line)
        j == Index(t, "]") IN
    IF t # <<>> /\ t[1] = "[" /\ j >= 3 /\ TrimLeft(SubSeq(t, j + 1, Len(t))) = <<>>
    THEN [ok |-> TRUE, name |-> SubSeq(t, 2, j - 1)]
    ELSE [ok |-> FALSE, name |-> <<>>]

\* the longest prefix of s with no '=' and no whitespace
RECURSIVE KeyRun(_)
KeyRun(s) ==
    IF s = <<>> \/ s[1] = "=" \/ IsSpace(s[1]) THEN <<>>
    ELSE <<s[1]>> \o KeyRun(Tail(s))

\* keyValueRegex  ^\s*([^=\s]+)\s*=\s*(.*)$  : [ok, key, value]
KeyValueMatch(line) ==
    LET t     == TrimLeft(line)
        key   == KeyRun(t)
        after == TrimLeft(SubSeq(t, Len(key) + 1, Len(t))) IN
    IF key # <<>> /\ after # <<>> /\ after[1] = "="
    THEN [ok |-> TRUE, key |-> key, value |-> TrimLeft(Tail(after))]
    ELSE [ok |-> FALSE, key |-> <<>>, value |-> <<>>]

\* the branch of the loop body a line takes: a header, or a key-value line
IsHeaderLine(line) == line # <<>> /\ ~IsCommentLine(line) /\ SectionMatch(line).ok

IsKeyValueLine(line) ==
    line # <<>> /\ ~IsCommentLine(line) /\ ~SectionMatch(line).ok /\ KeyValueMatch(line).ok

NoError == [err |-> NoErr, op |-> "", key |-> <<>>, source |-> "", line |-> 0]

\* &ConfigError{Op: "parse", Key: key, Source: source:line, Err: err}
ParseError(err, key, source, line) ==
    [err |-> err, op |-> "parse", key |-> key, source |-> source, line |-> line]

\* the parser's position in one source: the store being built, the active
\* section, the number of lines read and the error that stopped it
ParserStart(sections) ==
    [sections |-> sections, currentSection |-> <<>>, lineNumber |-> 0,
     err |-> NoError]

\* parseLine with the bug of matching headers and key-value lines before
\* comments
parseLineCommentLast(st, line, source) ==
    LET n == st.lineNumber + 1 IN
    IF line = <<>>
    THEN [st EXCEPT !.lineNumber = n]
    ELSE LET sm == SectionMatch(line)
             m  == KeyValueMatch(line) IN
    IF sm.ok
    THEN [st EXCEPT !.lineNumber = n, !.currentSection = TrimSpace(sm.name)]
    ELSE IF m.ok
    THEN LET key     == TrimSpace(m.key)
             pv      == processQuotedValue(TrimSpace(m.value))
             fullKey == buildFullKey(st.currentSection, key)
             w       == setRawValue(st.sections, fullKey, pv.val) IN
         IF pv.err # NoErr
         THEN [st EXCEPT !.lineNumber = n,
                         !.err = ParseError(pv.err, key, source, n)]
         ELSE IF w.err # NoErr
         THEN [st EXCEPT !.lineNumber = n,
                         !.err = ParseError(w.err, fullKey, source, n)]
         ELSE [st EXCEPT !.lineNumber = n, !.sections = w.sections]
    ELSE [st EXCEPT !.lineNumber = n]

\* one iteration of the scanner loop of parseConfigReader
parseLine(st, line, source) ==
    LET n == st.lineNumber + 1 IN
    IF line = <<>> \/ IsCommentLine(line)
    THEN [st EXCEPT !.lineNumber = n]
    ELSE LET sm == SectionMatch(line)
             m  == KeyValueMatch(line) IN
    IF sm.ok
    THEN [st EXCEPT !.lineNumber = n, !.currentSection = TrimSpace(sm.name)]
    ELSE IF m.ok
    THEN LET key     == TrimSpace(m.key)
             pv      == processQuotedValue(TrimSpace(m.value))
             fullKey == buildFullKey(st.currentSection, key)
             w       == setRawValue(st.sections, fullKey, pv.val) IN
         IF pv.err # NoErr
         THEN [st EXCEPT !.lineNumber = n,
                         !.err = ParseError(pv.err, key, source, n)]
         ELSE IF w.err # NoErr
         THEN [st EXCEPT !.lineNumber = n,
                         !.err = ParseError(w.err, fullKey, source, n)]
         ELSE [st EXCEPT !.lineNumber = n, !.sections = w.sections]
    ELSE [st EXCEPT !.lineNumber = n]

\* the scanner loop: lines in order, stopping at the first error
RECURSIVE parseLines(_, _, _)
parseLines(st, lines, source) ==
    IF lines = <<>> \/ st.err.err # NoErr THEN st
    ELSE parseLines(parseLine(st, Head(lines), source), Tail(lines), source)

\* parser.parseConfigReader(reader, config, source)
parseConfigReader(lines, sections, source) ==
    parseLines(ParserStart(sections), lines, source)

-----------------------------------------------------------------------------
(* The file system and the configuration files found on it                 *)

\* FileA:  [core] / editor = vim / bare = true
FileA ==
    << <<"[", "c", "o", "r", "e", "]">>,
       <<" ", " ", "e", "d", "i", "t", "o", "r", " ", "=", " ", "v", "i", "m">>,
       <<" ", " ", "b", "a", "r", "e", " ", "=", " ", "t", "r", "u", "e">> >>

\* FileB:  # b / [core] / editor = nano / (blank) / [remote "o"] / url = u1
FileB ==
    << <<"#", " ", "b">>,
       <<"[", "c", "o", "r", "e", "]">>,
       <<"e", "d", "i", "t", "o", "r", " ", "=", " ", "n", "a", "n", "o">>,
       <<>>,
       <<"[", "r", "e", "m", "o", "t", "e", " ", "\"", "o", "\"", "]">>,
       <<"u", "r", "l", " ", "=", " ", "u", "1">> >>

\* FileC:  [user] / name = "A B" / [core] / editor = vi / editor = ed
FileC ==
    << <<"[", "u", "s", "e", "r", "]">>,
       <<"n", "a", "m", "e", " ", "=", " ", "\"", "A", " ", "B", "\"">>,
       <<"[", "c", "o", "r", "e", "]">>,
       <<"e", "d", "i", "t", "o", "r", " ", "=", " ", "v", "i">>,
       <<"e", "d", "i", "t", "o", "r", " ", "=", " ", "e", "d">> >>

\* FileBad:  [core] / pager = less / k!y = 1 / editor = joe  (line 3 has an invalid key)
FileBad ==
    << <<"[", "c", "o", "r", "e", "]">>,
       <<"p", "a", "g", "e", "r", " ", "=", " ", "l", "e", "s", "s">>,
       <<"k", "!", "y", " ", "=", " ", "1">>,
       <<"e", "d", "i", "t", "o", "r", " ", "=", " ", "j", "o", "e">> >>

\* the content of a readable file, by name
FileText(name) ==
    CASE name = "A"   -> FileA
      [] name = "B"   -> FileB
      [] name = "C"   -> FileC
      [] name = "Bad" -> FileBad

NoFile   == "none"       \* os.Stat fails: the path does not exist
NoAccess == "noaccess"   \* os.Stat succeeds and os.Open fails

\* ConfigSourceType, in the order of its iota
SourceTypeSystem   == "system"
SourceTypeGlobal   == "global"
SourceTypeLocal    == "local"
SourceTypeWorktree == "worktree"

\* one candidate path per kind of source; LocalConfigFile and
\* WorktreeConfigFile are joined to the repository path
SystemConfigFile == "/etc/gitconfig"
GlobalConfigFile == "~/.gitconfig"
GoodRepo         == "/repo"
BadRepo          == "/tmp"          \* a directory that holds no .git
LocalPath(repoPath)    == IF repoPath = GoodRepo THEN "/repo/.git/config" ELSE "/tmp/.git/config"
WorktreePath(repoPath) == IF repoPath = GoodRepo THEN "/repo/.git/config.worktree"
                          ELSE "/tmp/.git/config.worktree"

Paths == {SystemConfigFile, GlobalConfigFile, LocalPath(GoodRepo), WorktreePath(GoodRepo)}

\* what the environment may put at each path
FsChoices(p) ==
    CASE p = SystemConfigFile       -> {NoFile, "A"}
      [] p = GlobalConfigFile       -> {NoFile, "A", "B"}
      [] p = LocalPath(GoodRepo)    -> {NoFile, NoAccess, "A", "B", "Bad"}
      [] p = WorktreePath(GoodRepo) -> {NoFile, "C"}

\* os.Stat(path) == nil on the file system f
Exists(f, path) == path \in DOMAIN f /\ f[path] # NoFile

-----------------------------------------------------------------------------
(* Sources and the file loader                                              *)

Source(type, path) == [Type |-> type, Path |-> path]

\* a With... option applied to the options: it sets its flag
ApplyOption(options, name) ==
    CASE name = "WithSystem"     -> [options EXCEPT !.includeSystem = TRUE]
      [] name = "WithGlobal"     -> [options EXCEPT !.includeGlobal = TRUE]
      [] name = "WithLocal"      -> [options EXCEPT !.includeLocal = TRUE]
      [] name = "WithWorktree"   -> [options EXCEPT !.includeWorktree = TRUE]
      [] name = "WithGitCommand" -> [options EXCEPT !.useGitCommand = TRUE]

\* for _, opt := range opts { opt(options) }
RECURSIVE ApplyEach(_, _)
ApplyEach(options, given) ==
    IF given = <<>> THEN options
    ELSE ApplyEach(ApplyOption(options, Head(given)), Tail(given))

\* configOptions after LoadWithContext applied the caller's options, in the
\* order given, to {includeGlobal: true}; WithRepoPath is the repoPath
ApplyOptions(given, repoPath) ==
    ApplyEach([includeSystem   |-> FALSE,
               includeGlobal   |-> TRUE,
               includeLocal    |-> FALSE,
               includeWorktree |-> FALSE,
               useGitCommand   |-> FALSE,
               repoPath        |-> repoPath], given)

OptionNames == {"WithSystem", "WithGlobal", "WithLocal", "WithWorktree", "WithGitCommand"}

validateRepoPath(path) == IF path = GoodRepo THEN NoErr ELSE ErrRepoPath

\* getAllConfigPaths: the sources of the selected kinds whose file exists
\* getAllConfigPaths with the bug of taking the local file before the global
getAllConfigPathsLocalFirst(opts, f) ==
    (IF opts.includeSystem /\ Exists(f, SystemConfigFile)
     THEN <<Source(SourceTypeSystem, SystemConfigFile)>> ELSE <<>>)
    \o
    (IF opts.includeLocal /\ opts.repoPath # "" /\ Exists(f, LocalPath(opts.repoPath))
     THEN <<Source(SourceTypeLocal, LocalPath(opts.repoPath))>> ELSE <<>>)
    \o
    (IF opts.includeGlobal /\ Exists(f, GlobalConfigFile)
     THEN <<Source(SourceTypeGlobal, GlobalConfigFile)>> ELSE <<>>)
    \o
    (IF opts.includeWorktree /\ opts.repoPath # "" /\ Exists(f, WorktreePath(opts.repoPath))
     THEN <<Source(SourceTypeWorktree, WorktreePath(opts.repoPath))>> ELSE <<>>)

getAllConfigPaths(opts, f) ==
    (IF opts.includeSystem /\ Exists(f, SystemConfigFile)
     THEN <<Source(SourceTypeSystem, SystemConfigFile)>> ELSE <<>>)
    \o
    (IF opts.includeGlobal /\ Exists(f, GlobalConfigFile)
     THEN <<Source(SourceTypeGlobal, GlobalConfigFile)>> ELSE <<>>)
    \o
    (IF opts.includeLocal /\ opts.repoPath # "" /\ Exists(f, LocalPath(opts.repoPath))
     THEN <<Source(SourceTypeLocal, LocalPath(opts.repoPath))>> ELSE <<>>)
    \o
    (IF opts.includeWorktree /\ opts.repoPath # "" /\ Exists(f, WorktreePath(opts.repoPath))
     THEN <<Source(SourceTypeWorktree, WorktreePath(opts.repoPath))>> ELSE <<>>)

\* parser.parseConfigFile(path, config): [err, sections]
\* what parseConfigReader leaves to its caller: the error it returns and the
\* sections of the Config it wrote to
ReaderResult(st) == [err |-> st.err, sections |-> st.sections]

parseConfigFile(path, sections, f) ==
    IF ~Exists(f, path) \/ f[path] = NoAccess
    THEN [err |-> ParseError(ErrOpen, <<>>, path, 0), sections |-> sections]
    ELSE ReaderResult(parseConfigReader(FileText(f[path]), sections, path))

NewConfig == [sections |-> EmptyMap, sources |-> <<>>]

CtxError == [err |-> ErrCanceled, op |-> "", key |-> <<>>, source |-> "", line |-> 0]

\* the loop of parseFromFiles from source i on; ctx is done once k sources
\* were parsed.  opened lists the paths handed to parseConfigFile, selected
\* is the list the loop ranges over.
RECURSIVE parseSources(_, _, _, _, _, _)
RECURSIVE parsedSource(_, _, _, _, _, _, _)
parseSources(sources, i, config, opened, f, k) ==
    IF i > Len(sources)
    THEN [err |-> NoError, config |-> config, opened |-> opened, selected |-> sources]
    ELSE IF i - 1 >= k
    THEN [err |-> CtxError, config |-> config, opened |-> opened, selected |-> sources]
    ELSE parsedSource(sources, i, config, opened, f, k,
                      parseConfigFile(sources[i].Path, config.sections, f))

\* parsedSource with the bug of going on to the next source when one failed,
\* keeping what was read of the failed one
parsedSourceBestEffort(sources, i, config, opened, f, k, r) ==
    parseSources(sources, i + 1,
                 [sections |-> r.sections,
                  sources  |-> IF r.err.err # NoErr THEN config.sources
                               ELSE Append(config.sources, sources[i])],
                 Append(opened, sources[i].Path), f, k)

\* the rest of the loop body, r being what parseConfigFile returned
parsedSource(sources, i, config, opened, f, k, r) ==
    IF r.err.err # NoErr
    THEN [err |-> r.err, config |-> [config EXCEPT !.sections = r.sections],
          opened |-> Append(opened, sources[i].Path), selected |-> sources]
    ELSE parseSources(sources, i + 1,
                      [sections |-> r.sections,
                       sources  |-> Append(config.sources, sources[i])],
                      Append(opened, sources[i].Path), f, k)

\* the return of parseFromFiles, r being what the loop ended with
parsedSources(r) ==
    IF r.err.err # NoErr
    THEN [err |-> r.err, ok |-> FALSE, config |-> NewConfig, opened |-> r.opened,
          selected |-> r.selected]
    ELSE [err |-> NoError, ok |-> TRUE, config |-> r.config, opened |-> r.opened,
          selected |-> r.selected]

\* parser.parseFromFiles(ctx, opts): [err, ok, config, opened, selected]; ok is false
\* when the function returns a nil *Config
parseFromFiles(opts, f, k) ==
    parsedSources(parseSources(getAllConfigPaths(opts, f), 1, NewConfig, <<>>, f, k))

-----------------------------------------------------------------------------
(* The external git command                                                 *)

\* outputs of `git config --list --null --show-origin`, as the records that
\* strings.Split(strings.TrimRight(output, NUL), NUL) yields
\* file:g<TAB>core.editor=vi  NUL  file:g<TAB>user.name=A B
GitOut1 ==
    << <<"f", "i", "l", "e", ":", "g", "\t", "c", "o", "r", "e", ".", "e", "d", "i", "t", "o", "r", "=", "v", "i">>,
       <<"f", "i", "l", "e", ":", "g", "\t", "u", "s", "e", "r", ".", "n", "a", "m", "e", "=", "A", " ", "B">> >>

\* core.editor=ed  NUL  NUL  remote.o.url= u  NUL  noeq  NUL  core.x=a=b  NUL
\* core.editor=vi   (no origin)
GitOut2 ==
    << <<"c", "o", "r", "e", ".", "e", "d", "i", "t", "o", "r", "=", "e", "d">>,
       <<>>,
       <<"r", "e", "m", "o", "t", "e", ".", "o", ".", "u", "r", "l", "=", " ", "u">>,
       <<"n", "o", "e", "q">>,
       <<"c", "o", "r", "e", ".", "x", "=", "a", "=", "b">>,
       <<"c", "o", "r", "e", ".", "e", "d", "i", "t", "o", "r", "=", "v", "i">> >>

\* file:g<TAB>core.bare=true  NUL  file:l<TAB>justakey=1  NUL  file:l<TAB>core.bare=false
GitOut3 ==
    << <<"f", "i", "l", "e", ":", "g", "\t", "c", "o", "r", "e", ".", "b", "a", "r", "e", "=", "t", "r", "u", "e">>,
       <<"f", "i", "l", "e", ":", "l", "\t", "j", "u", "s", "t", "a", "k", "e", "y", "=", "1">>,
       <<"f", "i", "l", "e", ":", "l", "\t", "c", "o", "r", "e", ".", "b", "a", "r", "e", "=", "f", "a", "l", "s", "e">> >>

\* core.x.y.z=1   (a key of four segments)
GitOut4 ==
    << <<"c", "o", "r", "e", ".", "x", ".", "y", ".", "z", "=", "1">> >>

GitOutputs == {GitOut1, GitOut2, GitOut3, GitOut4}

HasPrefix(s, pre) == Len(s) >= Len(pre) /\ SubSeq(s, 1, Len(pre)) = pre

FilePrefix == <<"f", "i", "l", "e", ":">>

\* parseGitConfigLine with the bug of trimming the value as it trims the key
parseGitConfigLineTrimmed(line) ==
    IF HasPrefix(line, FilePrefix)
    THEN LET parts == SplitN2(line, "\t") IN
         IF Len(parts) = 2
         THEN LET source  == SubSeq(parts[1], Len(FilePrefix) + 1, Len(parts[1]))
                  kvParts == SplitN2(parts[2], "=") IN
              IF Len(kvParts) = 2
              THEN [key |-> TrimSpace(kvParts[1]), value |-> TrimSpace(kvParts[2]),
                    source |-> source]
              ELSE [key |-> <<>>, value |-> <<>>, source |-> source]
         ELSE [key |-> <<>>, value |-> <<>>, source |-> <<>>]
    ELSE LET parts == SplitN2(line, "=") IN
         IF Len(parts) = 2
         THEN [key |-> TrimSpace(parts[1]), value |-> TrimSpace(parts[2]), source |-> <<>>]
         ELSE [key |-> <<>>, value |-> <<>>, source |-> <<>>]

\* parser.parseGitConfigLine: [key, value, source]
parseGitConfigLine(line) ==
    IF HasPrefix(line, FilePrefix)
    THEN LET parts == SplitN2(line, "\t") IN
         IF Len(parts) = 2
         THEN LET source  == SubSeq(parts[1], Len(FilePrefix) + 1, Len(parts[1]))
                  kvParts == SplitN2(parts[2], "=") IN
              IF Len(kvParts) = 2
              THEN [key |-> TrimSpace(kvParts[1]), value |-> kvParts[2], source |-> source]
              ELSE [key |-> <<>>, value |-> <<>>, source |-> source]
         ELSE [key |-> <<>>, value |-> <<>>, source |-> <<>>]
    ELSE LET parts == SplitN2(line, "=") IN
         IF Len(parts) = 2
         THEN [key |-> TrimSpace(parts[1]), value |-> parts[2], source |-> <<>>]
         ELSE [key |-> <<>>, value |-> <<>>, source |-> <<>>]

\* the loop of parseGitConfigOutput over the records
RECURSIVE parseGitRecords(_, _)
RECURSIVE parsedGitRecord(_, _, _)
RECURSIVE storedGitRecord(_, _, _)
parseGitRecords(lines, sections) ==
    IF lines = <<>> THEN [err |-> NoError, sections |-> sections]
    ELSE IF Head(lines) = <<>> THEN parseGitRecords(Tail(lines), sections)
    ELSE parsedGitRecord(lines, sections, parseGitConfigLine(Head(lines)))

\* the loop body after parseGitConfigLine returned l
parsedGitRecord(lines, sections, l) ==
    IF l.key = <<>> THEN parseGitRecords(Tail(lines), sections)
    ELSE storedGitRecord(lines, l, setRawValue(sections, l.key, l.value))

\* the loop body after setRawValue returned w
storedGitRecord(lines, l, w) ==
    IF w.err # NoErr
    THEN [err |-> [err |-> w.err, op |-> "parse", key |-> l.key,
                   source |-> l.source, line |-> 0],
          sections |-> w.sections]
    ELSE parseGitRecords(Tail(lines), w.sections)

\* the return of parseGitConfigOutput, r being what the loop ended with
parsedGitRecords(config, r) ==
    IF r.err.err # NoErr
    THEN [err |-> r.err, ok |-> FALSE, config |-> NewConfig, opened |-> <<>>,
          selected |-> <<>>]
    ELSE [err |-> NoError, ok |-> TRUE,
          config |-> [config EXCEPT !.sections = r.sections], opened |-> <<>>,
          selected |-> <<>>]

\* parser.parseGitConfigOutput(output, config)
parseGitConfigOutput(lines, config) ==
    parsedGitRecords(config, parseGitRecords(lines, config.sections))

GitFailed == [ok |-> FALSE, lines |-> <<>>]

\* parser.parseFromGitCommand(ctx, opts); run is what cmd.Output() gave
parseFromGitCommand(run) ==
    IF ~run.ok
    THEN [err |-> [err |-> ErrGit, op |-> "load", key |-> <<>>, source |-> "", line |-> 0],
          ok |-> FALSE, config |-> NewConfig, opened |-> <<>>, selected |-> <<>>]
    ELSE parseGitConfigOutput(run.lines, NewConfig)

-----------------------------------------------------------------------------
(* Load                                                                     *)

\* LoadWithContext(ctx, opts...)
LoadWithContext(given, repoPath, f, k, run) ==
    LET options == ApplyOptions(given, repoPath) IN
    IF (options.includeLocal \/ options.includeWorktree) /\ options.repoPath # ""
       /\ validateRepoPath(options.repoPath) # NoErr
    THEN [err |-> [err |-> ErrRepoPath, op |-> "load", key |-> <<>>, source |-> "", line |-> 0],
          ok |-> FALSE, config |-> NewConfig, opened |-> <<>>, selected |-> <<>>]
    ELSE IF options.useGitCommand
    THEN parseFromGitCommand(run)
    ELSE parseFromFiles(options, f, k)

\* LoadLocal(repoPath): Load(WithLocal(), WithRepoPath(repoPath)), the context
\* never done
LoadLocal(repoPath, f) ==
    LoadWithContext(<<"WithLocal">>, repoPath, f, Cardinality(Paths), GitFailed)

\* LoadAll(repoPath), the context never done
LoadAll(repoPath, f) ==
    LoadWithContext(<<"WithSystem", "WithGlobal", "WithLocal", "WithWorktree">>,
                    repoPath, f, Cardinality(Paths), GitFailed)

-----------------------------------------------------------------------------
(* The state machine                                                        *)

MaxWrites == 1      \* changes the environment makes to the files

Pids == {1, 2}      \* callers of Reload

Unloaded == [loaded |-> FALSE, sections |-> EmptyMap, sources |-> <<>>]

Loaded(config) == [loaded |-> TRUE, sections |-> config.sections, sources |-> config.sources]

Store(c) == [sections |-> c.sections, sources |-> c.sources]

RlIdle == [pc |-> "idle", sources |-> <<>>, newConfig |-> NewConfig, i |-> 0,
           ctxDone |-> FALSE, before |-> NewConfig, fsRead |-> <<>>]

RdIdle == [pc |-> "idle", op |-> "", todo |-> <<>>, n |-> 0, sections |-> EmptyMap,
           sources |-> <<>>, atLock |-> NewConfig]

NoRes == [op |-> "", pid |-> 0, err |-> NoError, ok |-> FALSE, config |-> NewConfig,
          before |-> NewConfig, opened |-> <<>>, selected |-> <<>>, fsAt |-> <<>>,
          arg |-> <<>>, val |-> <<>>]

PsIdle == [st |-> ParserStart(EmptyMap), src |-> 0]

MuFree == mu.writer = 0 /\ mu.readers = 0

AllChoices == UNION { FsChoices(p) : p \in Paths }

TypeOK ==
    /\ fs \in [Paths -> AllChoices]
    /\ writes \in 0..MaxWrites
    /\ cfg.loaded \in BOOLEAN
    /\ mu.writer \in {0} \cup Pids
    /\ mu.readers \in 0..1

Init ==
    /\ fs \in { f \in [Paths -> AllChoices] : \A p \in Paths : f[p] \in FsChoices(p) }
    /\ writes = 0
    /\ cfg = Unloaded
    /\ mu = [writer |-> 0, readers |-> 0]
    /\ rl = [p \in Pids |-> RlIdle]
    /\ rd = RdIdle
    /\ res = NoRes
    /\ pub = NewConfig
    /\ ps = PsIdle
    /\ log = EmptyMap

\* the environment replaces, creates or deletes a configuration file after
\* the load (the files before the load are any that Init chooses)
WriteFile(path, content) ==
    /\ cfg.loaded
    /\ writes < MaxWrites
    /\ content \in FsChoices(path) \ {fs[path]}
    /\ fs' = [fs EXCEPT ![path] = content]
    /\ writes' = writes + 1
    /\ UNCHANGED <<cfg, mu, rl, rd, res, pub, ps, log>>

\* the caller of a load gets r: a *Config, or an error and no Config; lines
\* is what the git command printed for the load, if it ran one
LoadReturns(r, lines) ==
    /\ cfg' = IF r.ok THEN Loaded(r.config) ELSE cfg
    /\ pub' = IF r.ok THEN r.config ELSE pub
    /\ res' = [NoRes EXCEPT !.op = "load", !.err = r.err, !.ok = r.ok,
                            !.config = r.config, !.opened = r.opened,
                            !.selected = r.selected, !.fsAt = fs, !.arg = lines]

\* Load(opts...) / LoadWithContext(ctx, opts...): the caller gets a *Config or an error
Load(given, repoPath, k, run) ==
    /\ ~cfg.loaded
    /\ res.op = ""
    /\ LoadReturns(LoadWithContext(given, repoPath, fs, k, run), run.lines)
    /\ UNCHANGED <<fs, writes, mu, rl, rd, ps, log>>

\* ReloadWithContext, first critical section: Lock, copy c.sources, Unlock
RlCopySources(p) ==
    /\ cfg.loaded
    /\ rl[p].pc = "idle"
    /\ MuFree
    /\ rl' = [rl EXCEPT ![p] = [RlIdle EXCEPT
                 !.pc = IF Len(cfg.sources) = 0 THEN "fallback" ELSE "loop",
                 !.sources = cfg.sources, !.i = 1, !.before = Store(cfg)]]
    /\ UNCHANGED <<fs, writes, cfg, mu, rd, res, pub, ps, log>>

\* the caller's context is cancelled while the reload is in flight
Cancel(p) ==
    /\ rl[p].pc \in {"fallback", "loop"}
    /\ ~rl[p].ctxDone
    /\ rl' = [rl EXCEPT ![p].ctxDone = TRUE]
    /\ UNCHANGED <<fs, writes, cfg, mu, rd, res, pub, ps, log>>

ReloadResult(p, err) ==
    [NoRes EXCEPT !.op = "reload", !.pid = p, !.err = err, !.ok = (err.err = NoErr),
                  !.config = rl[p].newConfig, !.before = rl[p].before,
                  !.opened = rl[p].fsRead, !.selected = rl[p].sources]

\* LoadGlobalWithContext returned r to the reload
RlFallbackReturns(p, r) ==
    IF r.ok
    THEN /\ rl' = [rl EXCEPT ![p].pc = "swap", ![p].newConfig = r.config]
         /\ res' = res
    ELSE /\ rl' = [rl EXCEPT ![p] = RlIdle]
         /\ res' = ReloadResult(p, r.err)

\* no recorded sources: LoadGlobalWithContext(ctx) as the fallback
RlFallback(p) ==
    /\ rl[p].pc = "fallback"
    /\ RlFallbackReturns(p, LoadWithContext(<<"WithGlobal">>, "", fs,
                                            IF rl[p].ctxDone THEN 0 ELSE 1, GitFailed))
    /\ UNCHANGED <<fs, writes, cfg, mu, rd, pub, ps, log>>

\* parseConfigFile returned r for source i of the reload of p: the error
\* return, or the append to newConfig.sources
RlParsed(p, r) ==
    LET me == rl[p] IN
    IF r.err.err # NoErr
    THEN /\ rl' = [rl EXCEPT ![p] = RlIdle]
         /\ res' = [ReloadResult(p, r.err) EXCEPT
                       !.opened = Append(me.fsRead, me.sources[me.i].Path)]
    ELSE /\ rl' = [rl EXCEPT
               ![p].newConfig = [sections |-> r.sections,
                                 sources  |-> Append(me.newConfig.sources,
                                                     me.sources[me.i])],
               ![p].i = me.i + 1,
               ![p].fsRead = Append(me.fsRead, me.sources[me.i].Path)]
         /\ res' = res

\* RlParsed when the parser writes to the live Config
RlParsedInPlace(p, r) ==
    /\ cfg' = [cfg EXCEPT !.sections = r.sections]
    /\ RlParsed(p, r)

\* RlParseSource with the bug of parsing into the live Config instead of
\* newConfig, so that what was parsed before a failure stays in c.sections
RlParseSourceInPlace(p) ==
    /\ rl[p].pc = "loop"
    /\ IF rl[p].i > Len(rl[p].sources)
       THEN /\ rl' = [rl EXCEPT ![p].pc = "swap"]
            /\ UNCHANGED <<res, cfg>>
       ELSE IF rl[p].ctxDone
       THEN /\ rl' = [rl EXCEPT ![p] = RlIdle]
            /\ res' = ReloadResult(p, CtxError)
            /\ cfg' = cfg
       ELSE RlParsedInPlace(p, parseConfigFile(rl[p].sources[rl[p].i].Path,
                                               rl[p].newConfig.sections, fs))
    /\ UNCHANGED <<fs, writes, mu, rd, pub, ps, log>>

\* RlParseSource with the bug of testing the context only before the first
\* source
RlParseSourceCheckFirst(p) ==
    /\ rl[p].pc = "loop"
    /\ IF rl[p].i > Len(rl[p].sources)
       THEN /\ rl' = [rl EXCEPT ![p].pc = "swap"]
            /\ res' = res
       ELSE IF rl[p].ctxDone /\ rl[p].i = 1
       THEN /\ rl' = [rl EXCEPT ![p] = RlIdle]
            /\ res' = ReloadResult(p, CtxError)
       ELSE RlParsed(p, parseConfigFile(rl[p].sources[rl[p].i].Path,
                                        rl[p].newConfig.sections, fs))
    /\ UNCHANGED <<fs, writes, cfg, mu, rd, pub, ps, log>>

\* one iteration of the loop over the copied sources: the ctx check, then
\* parseConfigFile into newConfig; after the last source the loop ends
RlParseSource(p) ==
    /\ rl[p].pc = "loop"
    /\ IF rl[p].i > Len(rl[p].sources)
       THEN /\ rl' = [rl EXCEPT ![p].pc = "swap"]
            /\ res' = res
       ELSE IF rl[p].ctxDone
       THEN /\ rl' = [rl EXCEPT ![p] = RlIdle]
            /\ res' = ReloadResult(p, CtxError)
       ELSE RlParsed(p, parseConfigFile(rl[p].sources[rl[p].i].Path,
                                        rl[p].newConfig.sections, fs))
    /\ UNCHANGED <<fs, writes, cfg, mu, rd, pub, ps, log>>

\* RlLock with the bug of a lock that does not wait for the readers
RlLockNoWait(p) ==
    /\ rl[p].pc = "swap"
    /\ mu.writer = 0
    /\ mu' = [mu EXCEPT !.writer = p]
    /\ rl' = [rl EXCEPT ![p].pc = "locked"]
    /\ UNCHANGED <<fs, writes, cfg, rd, res, pub, ps, log>>

\* c.mu.Lock() before the swap
RlLock(p) ==
    /\ rl[p].pc = "swap"
    /\ MuFree
    /\ mu' = [mu EXCEPT !.writer = p]
    /\ rl' = [rl EXCEPT ![p].pc = "locked"]
    /\ UNCHANGED <<fs, writes, cfg, rd, res, pub, ps, log>>

\* c.sections = newConfig.sections
RlSetSections(p) ==
    /\ rl[p].pc = "locked"
    /\ cfg' = [cfg EXCEPT !.sections = rl[p].newConfig.sections]
    /\ rl' = [rl EXCEPT ![p].pc = "sections-set"]
    /\ UNCHANGED <<fs, writes, mu, rd, res, pub, ps, log>>

\* c.sources = newConfig.sources; c.mu.Unlock(); return nil
RlSetSources(p) ==
    /\ rl[p].pc = "sections-set"
    /\ cfg' = [cfg EXCEPT !.sources = rl[p].newConfig.sources]
    /\ mu' = [mu EXCEPT !.writer = 0]
    /\ pub' = rl[p].newConfig
    /\ res' = ReloadResult(p, NoError)
    /\ rl' = [rl EXCEPT ![p] = RlIdle]
    /\ UNCHANGED <<fs, writes, rd, ps, log>>

GitRuns == {GitFailed} \cup { [ok |-> TRUE, lines |-> g] : g \in GitOutputs }

RepoPaths == {"", GoodRepo, BadRepo}

\* the option lists of the load calls: any choice of WithSystem, WithLocal and
\* WithWorktree (LoadLocal is {WithLocal}), LoadGlobal's and LoadAll's
FileOptionSets ==
    (SUBSET {"WithSystem", "WithLocal", "WithWorktree"})
    \cup {{"WithGlobal"}, {"WithSystem", "WithGlobal", "WithLocal", "WithWorktree"}}

\* the options of each of these calls in every order
OptionLists ==
    UNION { { given \in [1..Cardinality(S) -> S] :
                \A i, j \in 1..Cardinality(S) : given[i] = given[j] => i = j } :
            S \in FileOptionSets }

Next ==
    \/ \E path \in Paths : \E content \in AllChoices : WriteFile(path, content)
    \/ \E given \in OptionLists : \E repoPath \in RepoPaths :
         \E k \in 0..Cardinality(Paths) : Load(given, repoPath, k, GitFailed)
    \/ \E run \in GitRuns : Load(<<"WithGitCommand">>, "", 0, run)
    \/ RlCopySources(1)
    \/ Cancel(1)
    \/ RlFallback(1)
    \/ RlParseSource(1)
    \/ RlLock(1)
    \/ RlSetSections(1)
    \/ RlSetSources(1)

Spec == Init /\ [][Next]_vars

-----------------------------------------------------------------------------
(* Writing and reading one Config directly: setRawValue, Get, GetWithDefault *)

MaxKeyLen == 4      \* length of the generated keys
MaxEntries == 2     \* distinct keys written to one store

\* every string over the alphabet of at most n characters
Strings(alphabet, n) == UNION { [1..m -> alphabet] : m \in 0..n }

\* keys that the generated ones do not reach: three and four segments, upper
\* case, digits with '-' and '_', a forbidden character, a space
ExtraKeys ==
    { <<"a", ".", "a", ".", "a">>,
      <<"A", ".", "a">>,
      <<"a", ".", "a", ".", "a", ".", "a">>,
      <<"a", "!", ".", "a">>,
      <<"a", ".", "a", " ", "b">> }

KeyUniverse == Strings({"a", "."}, MaxKeyLen) \cup ExtraKeys

\* strconv.FormatInt(n, 10) of the caller who stores a number
RECURSIVE FormatUint(_)
FormatUint(n) == IF n < 10 THEN <<DigitSeq[n + 1]>>
                 ELSE FormatUint(n \div 10) \o <<DigitSeq[(n % 10) + 1]>>

FormatInt(n) == IF n < 0 THEN <<"-">> \o FormatUint(-n) ELSE FormatUint(n)

StoredNumbers == {42, -129}

ValUniverse == { <<>>, <<"x", " ", "y">> } \cup { FormatInt(n) : n \in StoredNumbers }

NoFiles == [p \in Paths |-> NoFile]

\* a Config made empty, as NewConfig in the tests: &Config{sections: map...}
InitStore ==
    /\ fs = NoFiles
    /\ writes = 0
    /\ cfg = Loaded(NewConfig)
    /\ mu = [writer |-> 0, readers |-> 0]
    /\ rl = [p \in Pids |-> RlIdle]
    /\ rd = RdIdle
    /\ res = NoRes
    /\ pub = NewConfig
    /\ ps = PsIdle
    /\ log = EmptyMap

\* c.setRawValue(key, value); the error of a failed call names the key (a
\* call that fails is the last write of a behaviour: it changes nothing that
\* a later call could see)
SetRaw(key, value) ==
    /\ (res.op \in {"", "line"} \/ (res.op = "set" /\ res.ok))
    /\ key \in DOMAIN log \/ Cardinality(DOMAIN log) < MaxEntries
    /\ LET w == setRawValue(cfg.sections, key, value) IN
       /\ cfg' = [cfg EXCEPT !.sections = w.sections]
       /\ res' = [NoRes EXCEPT !.op = "set", !.ok = (w.err = NoErr),
                               !.err = [NoError EXCEPT !.err = w.err,
                                          !.key = IF w.err = NoErr THEN <<>> ELSE key]]
       /\ log' = IF w.err = NoErr THEN Put(log, key, [value |-> value, src |-> 0])
                 ELSE log
    /\ UNCHANGED <<fs, writes, mu, rl, rd, pub, ps>>

\* Get[T](c, key): the value and the error the caller gets (the last call
\* of a behaviour: a read changes nothing that a later call could see)
DoGet(T, key) ==
    /\ res.op \in {"", "set", "line"}
    /\ LET g == Get(T, cfg.sections, key) IN
       res' = [NoRes EXCEPT !.op = "get", !.ok = (g.err = NoErr),
                            !.err = [NoError EXCEPT !.err = g.err, !.op = "get", !.key = g.key],
                            !.arg = [T |-> T, key |-> key],
                            !.val = g.val]
    /\ UNCHANGED <<fs, writes, cfg, mu, rl, rd, pub, ps, log>>

\* GetWithDefault[T](c, key, defaultValue): a value, no error
DoGetWithDefault(T, key, defaultValue) ==
    /\ res.op \in {"", "set", "line"}
    /\ res' = [NoRes EXCEPT !.op = "getdefault", !.ok = TRUE,
                            !.arg = [T |-> T, key |-> key, defaultValue |-> defaultValue],
                            !.val = GetWithDefault(T, cfg.sections, key, defaultValue)]
    /\ UNCHANGED <<fs, writes, cfg, mu, rl, rd, pub, ps, log>>

\* parseConfigKey(key), a function of the key alone: what its caller gets
DoParseKey(key) ==
    /\ res.op = ""
    /\ res' = [NoRes EXCEPT !.op = "parsekey", !.arg = [key |-> key],
                            !.val = parseConfigKey(key)]
    /\ UNCHANGED <<fs, writes, cfg, mu, rl, rd, pub, ps, log>>

\* values are written, and every written key is read back with every type
NextStore ==
    \/ \E key \in KeyUniverse : \E value \in ValUniverse : SetRaw(key, value)
    \/ \E key \in KeyUniverse : DoParseKey(key)
    \/ \E T \in Types : \E key \in DOMAIN log : DoGet(T, key)

SpecStore == InitStore /\ [][NextStore]_vars

\* the keys of KeyUniverse that setRawValue accepts
ValidKeys == { k \in KeyUniverse : setRawValue(EmptyMap, k, <<>>).err = NoErr }

\* a Config after two writes (one entry when they are of the same key)
StoresOfTwoWrites ==
    { setRawValue(setRawValue(EmptyMap, k1, v1).sections, k2, v2).sections :
        <<k1, v1, k2, v2>> \in ValidKeys \X ValUniverse \X ValidKeys \X ValUniverse }

\* the default the caller passes: not the zero value of the type
Defaults(T) == CASE T = "string" -> { <<"d">> }
                 [] T = "bool"   -> { TRUE }
                 [] OTHER        -> { 7 }

InitGet ==
    /\ fs = NoFiles
    /\ writes = 0
    /\ cfg \in { Loaded([sections |-> s, sources |-> <<>>]) :
                    s \in {EmptyMap} \cup StoresOfTwoWrites }
    /\ mu = [writer |-> 0, readers |-> 0]
    /\ rl = [p \in Pids |-> RlIdle]
    /\ rd = RdIdle
    /\ res = NoRes
    /\ pub = Store(cfg)
    /\ ps = PsIdle
    /\ log = EmptyMap

\* any key is read from a given store, with every type
\* c.Has(key): what the caller gets
DoHas(key) ==
    /\ res.op \in {"", "set", "line"}
    /\ res' = [NoRes EXCEPT !.op = "has", !.ok = TRUE, !.arg = [key |-> key],
                            !.val = Has(cfg.sections, key)]
    /\ UNCHANGED <<fs, writes, cfg, mu, rl, rd, pub, ps, log>>

\* the keys looked up: those that can be stored, and one that differs from a
\* stored key in the case of its key name only
LookupKeys == KeyUniverse \cup { <<"a", ".", "A">> }

NextGet ==
    \/ \E T \in Types : \E key \in LookupKeys : DoGet(T, key)
    \/ \E key \in KeyUniverse : DoHas(key)
    \/ \E T \in Types : \E key \in KeyUniverse : \E d \in Defaults(T) :
          DoGetWithDefault(T, key, d)

SpecGet == InitGet /\ [][NextGet]_vars

-----------------------------------------------------------------------------
(* Converting one stored value: convertValue[T]                             *)

MaxLitLen == 3      \* length of the generated literals

\* the literals of TestParseBool and of the documentation
NamedLiterals ==
    { <<>>, <<"t","r","u","e">>, <<"T","R","U","E">>, <<"1">>, <<"o","n">>,
      <<"y","e","s">>, <<"f","a","l","s","e">>, <<"0">>, <<"o","f","f">>, <<"n","o">>,
      <<"m","a","y","b","e">>, <<"i","n","v","a","l","i","d">>, <<"Y","e","s">> }

\* numbers at the ends of the ranges of the widths, and malformed numbers
NumberLiterals ==
    { <<"1", "2", "8">>, <<"2", "5", "6">>, <<"-", "1", "2", "8">>,
      <<"-", "1", "2", "9">>,
      <<"1", "2", "7">>,
      <<"3", "2", "7", "6", "7">>,
      <<"3", "2", "7", "6", "8">>,
      <<"-", "3", "2", "7", "6", "8">>,
      <<"-", "3", "2", "7", "6", "9">>,
      <<"6", "5", "5", "3", "5">>,
      <<"6", "5", "5", "3", "6">>,
      <<"+", "5">>,
      <<"-", "0">>,
      <<"0", "0", "7">>,
      <<"1", ".", "5">>,
      <<" ", "1">>,
      <<"1", " ">>,
      <<"0", "x", "1">>,
      <<"1", "e", "2">>,
      <<"1", "2", "a">> }

Literals ==
    NamedLiterals \cup Strings({"o", "n", "N", "f", "1", " "}, MaxLitLen)
    \cup NumberLiterals \cup Strings({"-", "+", "1", "2", "5"}, MaxLitLen)

InitConv == InitStore

\* convertValue[T](value) on a value as Get takes it out of the store
DoConvert(T, value) ==
    /\ res.op = ""
    /\ LET c == convertValue(T, value) IN
       res' = [NoRes EXCEPT !.op = "convert", !.ok = (c.err = NoErr),
                            !.err = [NoError EXCEPT !.err = c.err],
                            !.arg = [T |-> T, value |-> value],
                            !.val = c.val]
    /\ UNCHANGED <<fs, writes, cfg, mu, rl, rd, pub, ps, log>>

NextConv == \E T \in Types : \E value \in Literals : DoConvert(T, value)

SpecConv == InitConv /\ [][NextConv]_vars

-----------------------------------------------------------------------------
(* Parsing sources line by line into one store                              *)

MaxLines == 3       \* lines read from one source
MaxSources == 2     \* sources parsed into one store

\* the lines a source can hold: headers, key-value lines of the same key, a
\* dotted key, a comment that reads as a key-value line, a value that does
\* not unquote, a blank, a line of neither form and a key that is refused
LineCatalogue ==
    { <<"[", "a", "]">>,
      <<"[", " ", "b", " ", "]">>,
      <<"x", " ", "=", " ", "1">>,
      <<"x", "=", "2">>,
      <<" ", "b", ".", "y", " ", "=", " ", "3">>,
      <<" ", ";", "x", "=", "1">>,
      <<"y", " ", "=", " ", "\"", "\\", "q", "\"">>,
      <<>>,
      <<"[", "a">>,
      <<"x", "!", " ", "=", " ", "1">> }

\* the sources in the order parseFromFiles takes them
SourceOrder == <<SystemConfigFile, GlobalConfigFile, LocalPath(GoodRepo), WorktreePath(GoodRepo)>>

InitParse ==
    /\ fs = NoFiles
    /\ writes = 0
    /\ cfg = Unloaded
    /\ mu = [writer |-> 0, readers |-> 0]
    /\ rl = [p \in Pids |-> RlIdle]
    /\ rd = RdIdle
    /\ res = NoRes
    /\ pub = NewConfig
    /\ ps = [st |-> ParserStart(EmptyMap), src |-> 1]
    /\ log = EmptyMap

\* ReadLine with the bug of a loop that goes on after a line failed
ReadLineAfterError(line) ==
    /\ ps.src \in 1..MaxSources
    /\ ps.st.lineNumber < MaxLines
    /\ LET st == parseLine(ps.st, line, SourceOrder[ps.src])
           m  == KeyValueMatch(line) IN
       /\ ps' = [ps EXCEPT !.st = st]
       /\ log' = IF IsKeyValueLine(line) /\ st.err.err = NoErr
                 THEN Put(log, buildFullKey(ps.st.currentSection, TrimSpace(m.key)),
                          [value |-> processQuotedValue(TrimSpace(m.value)).val,
                           src   |-> ps.src])
                 ELSE log
    /\ UNCHANGED <<fs, writes, cfg, mu, rl, rd, res, pub>>

\* scanner.Scan() hands the next line of the current source to the loop body
ReadLine(line) ==
    /\ ps.src \in 1..MaxSources
    /\ ps.st.err.err = NoErr
    /\ ps.st.lineNumber < MaxLines
    /\ LET st == parseLine(ps.st, line, SourceOrder[ps.src])
           m  == KeyValueMatch(line) IN
       /\ ps' = [ps EXCEPT !.st = st]
       /\ log' = IF IsKeyValueLine(line) /\ st.err.err = NoErr
                 THEN Put(log, buildFullKey(ps.st.currentSection, TrimSpace(m.key)),
                          [value |-> processQuotedValue(TrimSpace(m.value)).val,
                           src   |-> ps.src])
                 ELSE log
    /\ UNCHANGED <<fs, writes, cfg, mu, rl, rd, res, pub>>

\* EndOfFile with the bug of a current section that outlives the source
EndOfFileKeepSection ==
    /\ ps.src \in 1..MaxSources
    /\ ps.st.err.err = NoErr
    /\ ps' = [st  |-> [ParserStart(ps.st.sections) EXCEPT
                         !.currentSection = ps.st.currentSection],
              src |-> ps.src + 1]
    /\ UNCHANGED <<fs, writes, cfg, mu, rl, rd, res, pub, log>>

\* scanner.Scan() returns false: parseConfigReader returns nil and
\* parseFromFiles goes on to the next source with the same Config
EndOfFile ==
    /\ ps.src \in 1..MaxSources
    /\ ps.st.err.err = NoErr
    /\ ps' = [st |-> ParserStart(ps.st.sections), src |-> ps.src + 1]
    /\ UNCHANGED <<fs, writes, cfg, mu, rl, rd, res, pub, log>>

NextParse ==
    \/ \E line \in LineCatalogue : ReadLine(line)
    \/ EndOfFile

SpecParse == InitParse /\ [][NextParse]_vars

-----------------------------------------------------------------------------
(* Reads that run while reloads run                                          *)

ReadOps == {"Get", "Has", "GetSection", "GetSections", "GetAll", "Clone", "String"}

\* the fields of c an accessor reads between RLock and RUnlock, in order:
\* Clone takes len(c.sources) for its make, ranges over c.sections and copies
\* c.sources; String ranges over c.sources, then over c.sections; the others
\* read c.sections
FieldReads(op) == CASE op = "Clone"  -> <<"len", "sections", "sources">>
                    [] op = "String" -> <<"sources", "sections">>
                    [] OTHER         -> <<"sections">>

ZeroSource == Source("", "")

\* copy(dst, src) into a slice made with n elements
CopyInto(n, src) == [i \in 1..n |-> IF i <= Len(src) THEN src[i] ELSE ZeroSource]

\* the key and the section the reading caller asks for
ReadKey == <<"c","o","r","e",".","e","d","i","t","o","r">>

ReadSection == <<"c","o","r","e">>

\* what an accessor returns from the sections and sources it read
Returned(op, sections, sources) ==
    CASE op = "Get"         -> Result(Get("string", sections, ReadKey))
      [] op = "Has"         -> Has(sections, ReadKey)
      [] op = "GetSection"  -> IF ReadSection \in DOMAIN sections
                               THEN sections[ReadSection] ELSE EmptyMap
      [] op = "GetSections" -> DOMAIN sections
      [] op = "GetAll"      -> sections
      [] op = "Clone"       -> [sections |-> sections, sources |-> sources]
      [] op = "String"      -> <<sources, sections>>

\* c.mu.RLock() of an accessor
RdLock(op) ==
    /\ rd.pc \in {"idle", "done"}
    /\ mu.writer = 0
    /\ mu' = [mu EXCEPT !.readers = 1]
    /\ rd' = [RdIdle EXCEPT !.pc = "reading", !.op = op, !.todo = FieldReads(op),
                            !.atLock = pub]
    /\ UNCHANGED <<fs, writes, cfg, rl, res, pub, ps, log>>

\* the accessor reads the next field of c
RdRead ==
    /\ rd.pc = "reading"
    /\ rd.todo # <<>>
    /\ LET f == Head(rd.todo) IN
       rd' = [rd EXCEPT
                !.todo = Tail(rd.todo),
                !.n = IF f = "len" THEN Len(cfg.sources) ELSE rd.n,
                !.sections = IF f = "sections" THEN cfg.sections ELSE rd.sections,
                !.sources = IF f # "sources" THEN rd.sources
                            ELSE IF rd.op = "Clone" THEN CopyInto(rd.n, cfg.sources)
                            ELSE cfg.sources]
    /\ UNCHANGED <<fs, writes, cfg, mu, rl, res, pub, ps, log>>

\* the deferred c.mu.RUnlock(): the accessor returns
RdUnlock ==
    /\ rd.pc = "reading"
    /\ rd.todo = <<>>
    /\ mu' = [mu EXCEPT !.readers = 0]
    /\ rd' = [rd EXCEPT !.pc = "done"]
    /\ UNCHANGED <<fs, writes, cfg, rl, res, pub, ps, log>>

\* the files of the Config that the callers share
ConcFiles == [NoFiles EXCEPT ![GlobalConfigFile] = "A", ![LocalPath(GoodRepo)] = "B"]

\* the shared Config: loaded from the global and the local file, or from the
\* output of the git command (which records no sources)
ConcLoads ==
    { LoadWithContext(<<"WithLocal">>, GoodRepo, ConcFiles, Cardinality(Paths), GitFailed),
      LoadWithContext(<<"WithGitCommand">>, "", ConcFiles, 0, [ok |-> TRUE, lines |-> GitOut1]) }

InitConc ==
    /\ fs = ConcFiles
    /\ writes = 0
    /\ cfg \in { Loaded(r.config) : r \in ConcLoads }
    /\ mu = [writer |-> 0, readers |-> 0]
    /\ rl = [p \in Pids |-> RlIdle]
    /\ rd = RdIdle
    /\ res = NoRes
    /\ pub = Store(cfg)
    /\ ps = PsIdle
    /\ log = EmptyMap

\* one caller reloads, again and again, while another reads and the files change
NextConc ==
    \/ \E path \in Paths : \E content \in AllChoices : WriteFile(path, content)
    \/ RlCopySources(1)
    \/ RlFallback(1)
    \/ RlParseSource(1)
    \/ RlLock(1)
    \/ RlSetSections(1)
    \/ RlSetSources(1)
    \/ \E op \in ReadOps : RdLock(op)
    \/ RdRead
    \/ RdUnlock

SpecConc == InitConc /\ [][NextConc]_vars

-----------------------------------------------------------------------------
(* Two callers reload the same Config while its files change                *)

\* the shared Config, loaded from the global and the local file
InitRace ==
    /\ fs = ConcFiles
    /\ writes = 0
    /\ cfg = Loaded(LoadLocal(GoodRepo, ConcFiles).config)
    /\ mu = [writer |-> 0, readers |-> 0]
    /\ rl = [p \in Pids |-> RlIdle]
    /\ rd = RdIdle
    /\ res = NoRes
    /\ pub = Store(cfg)
    /\ ps = PsIdle
    /\ log = EmptyMap

NextRace ==
    \/ \E path \in {GlobalConfigFile, LocalPath(GoodRepo)} :
          \E content \in AllChoices : WriteFile(path, content)
    \/ \E p \in Pids :
          \/ RlCopySources(p)
          \/ RlParseSource(p)
          \/ RlLock(p)
          \/ RlSetSections(p)
          \/ RlSetSources(p)

SpecRace == InitRace /\ [][NextRace]_vars

-----------------------------------------------------------------------------
(* Reading the lines of one file into a Config made empty, as the tests do: *)
(* parseConfigReader(reader, config, "test"), then calls on the Config      *)

MaxReaderLines == 3     \* lines of the file

\* the names between the brackets of the headers
HeaderNames == { <<"a">>, <<"r">> }

\* what follows the name in a header: nothing, or a quoted subsection
Subsections ==
    { [has |-> FALSE, text |-> <<>>],
      [has |-> TRUE,  text |-> <<"o">>],
      [has |-> TRUE,  text |-> <<"p", "/", "s">>],
      [has |-> TRUE,  text |-> <<"o", ".", "x">>] }

\* the keys of the key-value lines
LineKeys == { <<"x">>, <<"u", "-", "1">> }

\* the text right of the '=' and one space: plain, with white space around,
\* quoted with escaped quotes, quoted with inner white space, a quote that is
\* not closed, a quoted text with an escape Go does not have, a quoted text
\* with a bare quote inside, nothing
RawValues ==
    { <<"v">>,
      <<"\t", "v", " ", "w", " ", " ">>,
      <<"\"", "a", " ", "\\", "\"", "b", "\\", "\"", " ", "c", "\"">>,
      <<"\"", " ", "a", " ", " ", "b", " ", "\"">>,
      <<"\"", "a", "b", "c">>,
      <<"\"", "a", "\\", "q", "b", "\"">>,
      <<"\"", "a", "\"", "b", "\"">>,
      <<>> }

\* [name] or [name "text"]
HeaderLine(name, sub) ==
    <<"[">> \o name
    \o (IF sub.has THEN <<" ", "\"">> \o sub.text \o <<"\"">> ELSE <<>>)
    \o <<"]">>

\* an indented "key = raw"
KeyValueLine(key, raw) == <<" ", " ">> \o key \o <<" ", "=", " ">> \o raw

NoHeader == [seen |-> FALSE, name |-> <<>>, sub |-> [has |-> FALSE, text |-> <<>>]]

InitReader ==
    /\ fs = NoFiles
    /\ writes = 0
    /\ cfg = Loaded(NewConfig)
    /\ mu = [writer |-> 0, readers |-> 0]
    /\ rl = [p \in Pids |-> RlIdle]
    /\ rd = RdIdle
    /\ res = NoRes
    /\ pub = NewConfig
    /\ ps = [st |-> ParserStart(EmptyMap), src |-> 1, header |-> NoHeader]
    /\ log = EmptyMap

\* one iteration of the scanner loop, st being the parser after it; a failed
\* iteration is the return of parseConfigReader with the error
ReaderStep(st, header, arg) ==
    /\ ps' = [ps EXCEPT !.st = st, !.header = header]
    /\ cfg' = [cfg EXCEPT !.sections = st.sections]
    /\ res' = [NoRes EXCEPT !.op = "line", !.ok = (st.err.err = NoErr),
                            !.err = st.err, !.arg = arg,
                            !.before = [sections |-> ps.st.sections, sources |-> <<>>]]

\* the scanner hands a header line to the loop body
ReadHeader(name, sub) ==
    /\ res.op \in {"", "line"}
    /\ ps.st.err.err = NoErr
    /\ ps.st.lineNumber < MaxReaderLines
    /\ ReaderStep(parseLine(ps.st, HeaderLine(name, sub), "test"),
                  [seen |-> TRUE, name |-> name, sub |-> sub],
                  [kind |-> "header", name |-> name, sub |-> sub,
                   key |-> <<>>, raw |-> <<>>])
    /\ UNCHANGED <<fs, writes, mu, rl, rd, pub, log>>

\* the scanner hands a key-value line to the loop body
ReadKeyValue(key, raw) ==
    /\ res.op \in {"", "line"}
    /\ ps.st.err.err = NoErr
    /\ ps.st.lineNumber < MaxReaderLines
    /\ ReaderStep(parseLine(ps.st, KeyValueLine(key, raw), "test"),
                  ps.header,
                  [kind |-> "keyvalue", name |-> ps.header.name, sub |-> ps.header.sub,
                   key |-> key, raw |-> raw])
    /\ UNCHANGED <<fs, writes, mu, rl, rd, pub, log>>

\* the keys of the direct calls: no dot, one, two and three dots, empty
CallKeys ==
    { <<"x">>, <<>>, <<"a", ".", "x">>, <<"r", ".", "o", ".", "x">>,
      <<"r", ".", "o", ".", "x", ".", "x">> }

NextReader ==
    \/ \E name \in HeaderNames : \E sub \in Subsections : ReadHeader(name, sub)
    \/ \E key \in LineKeys : \E raw \in RawValues : ReadKeyValue(key, raw)
    \/ \E key \in CallKeys : SetRaw(key, <<"v">>)
    \/ \E key \in CallKeys : DoGet("string", key)

SpecReader == InitReader /\ [][NextReader]_vars

-----------------------------------------------------------------------------
(* Copies handed to callers: Clone, GetAll, GetSection, GetSources.  Maps     *)
(* and slices are references in Go, so here the maps and the backing arrays  *)
(* are objects of a heap, log, a sequence addressed by position; cfg holds   *)
(* the addresses of the original's sections map and sources array, and rd    *)
(* the addresses of what the accessor returned (0: none).                    *)

MaxCopyWrites == 2      \* changes made to the original or to the copy

\* the two-level map that the outer map at address outer stands for
MapValue(heap, outer) == [sec \in DOMAIN heap[outer] |-> heap[heap[outer][sec]]]

\* result[section] = sectionMap: the inner map itself, not a copy of it
CopySectionShared(heap, result, section, sectionMap) ==
    [heap EXCEPT ![result] = Put(@, section, sectionMap)]

\* result[section] = make(map[string]string, len(sectionMap)), then
\* result[section][k] = v for every entry of sectionMap
CopySection(heap, result, section, sectionMap) ==
    Append([heap EXCEPT ![result] = Put(@, section, Len(heap) + 1)], heap[sectionMap])

\* for section, sectionMap := range c.sections { ... } into the map at result
RECURSIVE CopySections(_, _, _, _)
CopySections(heap, result, src, todo) ==
    IF todo = {} THEN heap
    ELSE LET section == CHOOSE sec \in todo : TRUE IN
         CopySections(CopySection(heap, result, section, heap[src][section]),
                      result, src, todo \ {section})

\* make(map[string]map[string]string) and the copy loop: the new outer map is
\* at address Len(heap) + 1
CopyAll(heap, src) ==
    CopySections(Append(heap, EmptyMap), Len(heap) + 1, src, DOMAIN heap[src])

\* sources := make([]ConfigSource, len(c.sources)); copy(sources, c.sources):
\* the new array is at address Len(heap) + 1
CopySources(heap, src) == Append(heap, CopyInto(Len(heap[src]), heap[src]))

\* c.Clone(): [heap, sections, sources, section]
Clone(heap, c) ==
    [heap     |-> CopySources(CopyAll(heap, c.sections), c.sources),
     sections |-> Len(heap) + 1,
     sources  |-> Len(CopyAll(heap, c.sections)) + 1,
     section  |-> 0]

\* c.GetAll()
GetAll(heap, c) ==
    [heap |-> CopyAll(heap, c.sections), sections |-> Len(heap) + 1,
     sources |-> 0, section |-> 0]

\* c.GetSection(section): a new map, empty when there is no such section
GetSection(heap, c, section) ==
    [heap     |-> IF section \in DOMAIN heap[c.sections]
                  THEN Append(heap, heap[heap[c.sections][section]])
                  ELSE Append(heap, EmptyMap),
     sections |-> 0, sources |-> 0, section |-> Len(heap) + 1]

\* c.GetSources()
GetSources(heap, c) ==
    [heap |-> CopySources(heap, c.sources), sections |-> 0,
     sources |-> Len(heap) + 1, section |-> 0]

\* m[section][key] = value on the outer map at address outer, the inner map
\* made when the section is new
HeapPut(heap, outer, section, key, value) ==
    IF section \in DOMAIN heap[outer]
    THEN [heap EXCEPT ![heap[outer][section]] = Put(@, key, value)]
    ELSE Append([heap EXCEPT ![outer] = Put(@, section, Len(heap) + 1)],
                Put(EmptyMap, key, value))

\* setRawValue on the Config whose sections map is at address outer
HeapSetRaw(heap, outer, key, value) ==
    IF setRawValue(EmptyMap, key, value).err # NoErr THEN heap
    ELSE HeapPut(heap, outer, parseConfigKey(key).section,
                 parseConfigKey(key).keyName, value)

\* a Config built by a load: its maps and its array put on the heap, the outer
\* map at Len(heap) + 1
RECURSIVE AllocSections(_, _, _, _)
AllocSections(heap, result, sections, todo) ==
    IF todo = {} THEN heap
    ELSE LET section == CHOOSE sec \in todo : TRUE IN
         AllocSections(Append([heap EXCEPT ![result] = Put(@, section, Len(heap) + 1)],
                              sections[section]),
                       result, sections, todo \ {section})

AllocConfig(heap, config) ==
    Append(AllocSections(Append(heap, EmptyMap), Len(heap) + 1, config.sections,
                         DOMAIN config.sections),
           config.sources)

\* the Configs of the copies: loaded from the global file A, from the local
\* file B, and the one of TestConfigClone with no source
CopyConfigs ==
    [A    |-> [sections |-> parseConfigReader(FileA, EmptyMap, GlobalConfigFile).sections,
               sources  |-> <<Source(SourceTypeGlobal, GlobalConfigFile)>>],
     B    |-> [sections |-> parseConfigReader(FileB, EmptyMap, LocalPath(GoodRepo)).sections,
               sources  |-> <<Source(SourceTypeLocal, LocalPath(GoodRepo))>>],
     none |-> NewConfig]

NoCopy == [RdIdle EXCEPT !.n = 0, !.sections = 0, !.sources = 0]

InitCopy ==
    /\ fs = NoFiles
    /\ writes = 0
    /\ \E name \in {"A", "none"} :
          /\ log = AllocConfig(<<>>, CopyConfigs[name])
          /\ cfg = [loaded |-> TRUE, sections |-> 1, sources |-> Len(log)]
    /\ mu = [writer |-> 0, readers |-> 0]
    /\ rl = [p \in Pids |-> RlIdle]
    /\ rd = NoCopy
    /\ res = NoRes
    /\ pub = NewConfig
    /\ ps = PsIdle

CopyOps == {"Clone", "GetAll", "GetSection", "GetSources"}

\* the accessor op returns r to the caller
CopyReturns(op, r) ==
    /\ log' = r.heap
    /\ rd' = [NoCopy EXCEPT !.pc = "done", !.op = op, !.sections = r.sections,
                            !.sources = r.sources, !.n = r.section]
    /\ res' = [NoRes EXCEPT !.op = "copy", !.ok = TRUE]

\* a caller takes a copy with one of the accessors
TakeCopy(op, section) ==
    /\ rd.pc = "idle"
    /\ CopyReturns(op, CASE op = "Clone"      -> Clone(log, cfg)
                         [] op = "GetAll"     -> GetAll(log, cfg)
                         [] op = "GetSection" -> GetSection(log, cfg, section)
                         [] op = "GetSources" -> GetSources(log, cfg))
    /\ UNCHANGED <<fs, writes, cfg, mu, pub, rl, ps>>

\* c.sections[section][key] = value on the original, through setRawValue
WriteOriginal(key, value) ==
    /\ writes < MaxCopyWrites
    /\ log' = HeapSetRaw(log, cfg.sections, key, value)
    /\ writes' = writes + 1
    /\ res' = [NoRes EXCEPT !.op = "write-original", !.ok = TRUE]
    /\ UNCHANGED <<fs, cfg, mu, pub, rl, rd, ps>>

\* the end of a Reload of the original: c.sections = newConfig.sections and
\* c.sources = newConfig.sources, newConfig built from the files anew
ReloadOriginal(name) ==
    /\ writes < MaxCopyWrites
    /\ log' = AllocConfig(log, CopyConfigs[name])
    /\ cfg' = [cfg EXCEPT !.sections = Len(log) + 1, !.sources = Len(log')]
    /\ writes' = writes + 1
    /\ res' = [NoRes EXCEPT !.op = "reload", !.ok = TRUE]
    /\ UNCHANGED <<fs, mu, pub, rl, rd, ps>>

\* the caller changes what it was given: an entry of the map or of a map of
\* the two-level map, the first element of the slice
WriteCopy(section, key, value) ==
    /\ rd.pc = "done"
    /\ writes < MaxCopyWrites
    /\ rd.sources # 0 => log[rd.sources] # <<>> \/ rd.sections # 0
    /\ log' = CASE rd.sections # 0 -> HeapPut(log, rd.sections, section, key, value)
                [] rd.n # 0        -> [log EXCEPT ![rd.n] = Put(@, key, value)]
                [] OTHER           -> [log EXCEPT ![rd.sources][1] = ZeroSource]
    /\ writes' = writes + 1
    /\ res' = [NoRes EXCEPT !.op = "write-copy", !.ok = TRUE]
    /\ UNCHANGED <<fs, cfg, mu, pub, rl, rd, ps>>

\* the keys, sections and values of the changes
CopyKeys ==
    { <<"c", "o", "r", "e", ".", "e", "d", "i", "t", "o", "r">>,
      <<"c", "o", "r", "e", ".", "x">>,
      <<"n", ".", "x">> }

CopySectionNames == { <<"c", "o", "r", "e">>, <<"n">> }

CopyKeyNames == { <<"e", "d", "i", "t", "o", "r">>, <<"x">> }

NextCopy ==
    \/ \E op \in CopyOps : \E section \in CopySectionNames : TakeCopy(op, section)
    \/ \E key \in CopyKeys : WriteOriginal(key, <<"w">>)
    \/ \E name \in {"B", "none"} : ReloadOriginal(name)
    \/ \E section \in CopySectionNames : \E key \in CopyKeyNames :
          WriteCopy(section, key, <<"w">>)

SpecCopy == InitCopy /\ [][NextCopy]_vars

-----------------------------------------------------------------------------
(* What the sources say, read line by line                                  *)

Max(S) == CHOOSE x \in S : \A y \in S : y <= x

\* the section that is active at line i: the trimmed content of the nearest
\* header above it, empty when there is none
ActiveSection(lines, i) ==
    LET hs == { j \in 1..(i - 1) : IsHeaderLine(lines[j]) } IN
    IF hs = {} THEN <<>> ELSE TrimSpace(SectionMatch(lines[Max(hs)]).name)

\* the composed key and the normalised value that key-value line i writes
LineWrite(lines, i) ==
    LET m == KeyValueMatch(lines[i]) IN
    [key   |-> buildFullKey(ActiveSection(lines, i), TrimSpace(m.key)),
     value |-> processQuotedValue(TrimSpace(m.value)).val]

RECURSIVE WritesFrom(_, _)
WritesFrom(lines, i) ==
    IF i > Len(lines) THEN <<>>
    ELSE (IF IsKeyValueLine(lines[i]) THEN <<LineWrite(lines, i)>> ELSE <<>>)
         \o WritesFrom(lines, i + 1)

\* the writes of a list of sources on the file system f: sources in list
\* order, lines in file order
RECURSIVE SourceWrites(_, _)
SourceWrites(sources, f) ==
    IF sources = <<>> THEN <<>>
    ELSE WritesFrom(FileText(f[Head(sources).Path]), 1) \o SourceWrites(Tail(sources), f)

-----------------------------------------------------------------------------
(* Claims                                                                   *)

\* C1: after a successful load of an ordered list of sources, every composed
\* key holds the value of the last key-value line that wrote it, sources in
\* list order and lines in file order.
C1_LastWriteWins ==
    (res.op = "load" /\ res.ok) =>
        LET W == SourceWrites(res.config.sources, res.fsAt) IN
        \A i \in DOMAIN W :
            LET last == Max({ j \in DOMAIN W : W[j].key = W[i].key }) IN
            Result(Get("string", res.config.sections, W[i].key)) = StrOk(W[last].value)

\* C1 witness: two sources were loaded, an earlier and a later line wrote the
\* same key with different values, and the store holds the later one.
C1_Witness ==
    /\ res.op = "load" /\ res.ok
    /\ Len(res.config.sources) >= 2
    /\ LET W == SourceWrites(res.config.sources, res.fsAt) IN
       \E i, j \in DOMAIN W :
          /\ i < j
          /\ W[i].key = W[j].key
          /\ W[i].value # W[j].value
          /\ j = Max({ n \in DOMAIN W : W[n].key = W[i].key })
          /\ Result(Get("string", res.config.sections, W[i].key)) = StrOk(W[j].value)

\* a reload of process p returns an error of opening or parsing a source
ReloadFails(p) ==
    /\ rl[p].pc = "loop"
    /\ rl'[p].pc = "idle"
    /\ res'.err.err \in {ErrOpen, ErrInvalidKeyFormat, ErrSyntax}

\* C3: when a reload fails because a recorded source cannot be opened or
\* parsed, the Config's sections and sources are what they were before the
\* call, and the error names the failing source's path.
C3_FailedReloadKeepsStore ==
    [][ \A p \in Pids :
          ReloadFails(p) =>
             /\ cfg' = cfg
             /\ Store(cfg') = rl[p].before
             /\ res'.op = "reload" /\ ~res'.ok
             /\ res'.err.source = rl[p].sources[rl[p].i].Path ]_vars

\* C3 witness: a reload has failed on the second recorded source, after the
\* first one was parsed, and the Config still holds a non-empty store.
C3_Witness ==
    /\ res.op = "reload" /\ ~res.ok
    /\ res.err.err \in {ErrOpen, ErrInvalidKeyFormat}
    /\ Len(res.opened) >= 2
    /\ cfg.sections # EmptyMap
    /\ Store(cfg) = res.before

\* C5 (as claimed): after any successful reload the recorded source list is
\* the list recorded before the reload, also when that list was empty.
C5_ReloadKeepsSources ==
    (res.op = "reload" /\ res.ok) => pub.sources = res.before.sources

IdentChars == Letters \cup Digits \cup {"-", "_"}

Ident(s) == s # <<>> /\ \A i \in DOMAIN s : s[i] \in IdentChars

ValidStore(sections) ==
    \A s \in DOMAIN sections :
        /\ \/ Ident(s)
           \/ LET segs == Split(s, ".") IN \A n \in DOMAIN segs : Ident(segs[n])
        /\ \A k \in DOMAIN sections[s] : Ident(k)

\* C6: every entry of every store, live or being built, has a key name of
\* letters, digits, '-' and '_' and a section name that is such an identifier
\* or a dotted name of such identifiers; a load that meets an invalid key
\* returns InvalidKeyFormat and hands over no store.
C6_StoredKeysValid ==
    /\ ValidStore(cfg.sections)
    /\ ValidStore(pub.sections)
    /\ \A p \in Pids : ValidStore(rl[p].newConfig.sections)
    /\ (res.op = "load" /\ res.err.err = ErrInvalidKeyFormat) => (~res.ok /\ ~cfg.loaded)

\* C6 witness: a reload was refused for an invalid key while the Config holds
\* a store with a dotted section name.
C6_Witness ==
    /\ res.op = "reload" /\ res.err.err = ErrInvalidKeyFormat
    /\ \E s \in DOMAIN cfg.sections : Contains(s, ".")

\* the numbers a Go integer type of the model holds
RangeOf(T) == CASE T = "int8"   -> -128..127
                [] T = "int16"  -> -32768..32767
                [] T = "uint8"  -> 0..255
                [] T = "uint16" -> 0..65535
                [] OTHER        -> {}

\* C7: a written key read back as a string yields the value written last to
\* it, unchanged, whatever was written to other keys afterwards; when that
\* value is the decimal form of a number in the range of an integer type,
\* reading it with that type yields the number.
C7_RoundTrip ==
    (res.op = "get" /\ res.arg.key \in DOMAIN log) =>
        LET v == log[res.arg.key].value
            T == res.arg.T IN
        /\ T = "string" => (res.ok /\ res.val = v)
        /\ \A n \in StoredNumbers :
              (v = FormatInt(n) /\ n \in RangeOf(T)) => (res.ok /\ res.val = n)

\* C7 witness: a three-segment key holding a negative number, written
\* besides another key, was read back as an int16.
C7_Witness ==
    /\ res.op = "get" /\ res.ok
    /\ res.arg.T = "int16"
    /\ res.arg.key = <<"a", ".", "a", ".", "a">>
    /\ Cardinality(DOMAIN log) = 2
    /\ res.val = -129

\* C8: Get on a dotted key fails with SectionNotFound when the decomposed
\* section is absent, with KeyNotFound when the section is there without the
\* decomposed key, and succeeds only when both are there; a failing Get
\* returns the zero value, and the store stays as it was.
C8_GetErrors ==
    (res.op = "get" /\ Contains(res.arg.key, ".")) =>
        LET k    == parseConfigKey(res.arg.key)
            hasS == k.section \in DOMAIN cfg.sections
            hasK == hasS /\ k.keyName \in DOMAIN cfg.sections[k.section] IN
        /\ ~hasS => res.err.err = ErrSectionNotFound
        /\ (hasS /\ ~hasK) => res.err.err = ErrKeyNotFound
        /\ res.ok => hasK
        /\ ~res.ok => res.val = Zero(res.arg.T)
        /\ Store(cfg) = pub

\* C8 witness: a Get found the section of its key but not the key.
C8_Witness ==
    /\ res.op = "get"
    /\ res.err.err = ErrKeyNotFound
    /\ res.err.key \notin UNION { DOMAIN cfg.sections[x] : x \in DOMAIN cfg.sections }
    /\ res.val = Zero(res.arg.T)
    /\ Cardinality(DOMAIN cfg.sections) = 2

\* Get has a reason to fail for this type and key in these sections: no dot,
\* no such section, no such key, or a value that does not convert
GetFails(T, sections, key) ==
    \/ ~Contains(key, ".")
    \/ LET k == parseConfigKey(key) IN
       \/ k.section \notin DOMAIN sections
       \/ k.keyName \notin DOMAIN sections[k.section]
       \/ convertValue(T, sections[k.section][k.keyName]).err # NoErr

\* C10: GetWithDefault returns no error; it returns the caller's default when
\* Get fails for the key and type (undotted key, missing section, missing key,
\* failed conversion) and Get's value otherwise; the store stays as it was.
C10_DefaultOnFailure ==
    res.op = "getdefault" =>
        LET a == res.arg
            g == Get(a.T, cfg.sections, a.key) IN
        /\ res.err = NoError
        /\ GetFails(a.T, cfg.sections, a.key) <=> g.err # NoErr
        /\ GetFails(a.T, cfg.sections, a.key) => res.val = a.defaultValue
        /\ ~GetFails(a.T, cfg.sections, a.key) => res.val = g.val
        /\ Store(cfg) = pub

\* C10 witness: the stored value does not convert to the asked type, and the
\* caller got its non-zero default.
C10_Witness ==
    /\ res.op = "getdefault"
    /\ res.arg.T = "int8"
    /\ res.arg.defaultValue = 7
    /\ res.val = 7
    /\ LET k == parseConfigKey(res.arg.key) IN
       /\ k.section \in DOMAIN cfg.sections
       /\ k.keyName \in DOMAIN cfg.sections[k.section]
       /\ cfg.sections[k.section][k.keyName] = FormatInt(-129)

TrueWords == { <<"t","r","u","e">>, <<"y","e","s">>, <<"o","n">>, <<"1">> }

FalseWords == { <<"f","a","l","s","e">>, <<"n","o">>, <<"o","f","f">>, <<"0">> }

\* what the conversion to bool of a value must give when the value, made
\* lower case, is the word w
BoolOf(w, r) ==
    /\ (w \in TrueWords) => (r.ok /\ r.val = TRUE)
    /\ (w \in FalseWords) => (r.ok /\ r.val = FALSE)
    /\ (w \notin TrueWords \cup FalseWords) =>
          (~r.ok /\ r.err.err = ErrInvalidValue /\ r.val = FALSE)

\* C9 (as claimed): the empty value and true, yes, on, 1 in any case convert
\* to true, false, no, off, 0 in any case to false, and every other literal
\* fails with InvalidValue.
C9_BoolLiterals ==
    (res.op = "convert" /\ res.arg.T = "bool") =>
        IF res.arg.value = <<>> THEN res.ok /\ res.val = TRUE
        ELSE BoolOf(ToLower(res.arg.value), res)

\* C9 (amended): the empty value converts to true; any other value is first
\* trimmed of surrounding white space and then compared in any case: true,
\* yes, on, 1 give true, false, no, off, 0 give false, and everything else,
\* a value of white space only included, fails with InvalidValue.
C9_BoolLiteralsTrimmed ==
    (res.op = "convert" /\ res.arg.T = "bool") =>
        IF res.arg.value = <<>> THEN res.ok /\ res.val = TRUE
        ELSE BoolOf(ToLower(TrimSpace(res.arg.value)), res)

\* C9 witness: a value with white space around a word converted to a bool.
C9_Witness ==
    /\ res.op = "convert" /\ res.arg.T = "bool"
    /\ res.arg.value # TrimSpace(res.arg.value)
    /\ res.ok /\ res.val = FALSE

\* the composed keys that this step wrote
WrittenNow == { key \in DOMAIN log' : key \notin DOMAIN log \/ log'[key] # log[key] }

\* C2: when a line of a later source, or a later line, writes a key, every
\* other entry of the store, in the same section and in every other section,
\* keeps its value and is still returned by Get.
C2_PerKeyMerge ==
    [][ \A s \in DOMAIN ps.st.sections : \A k \in DOMAIN ps.st.sections[s] :
          (s \o <<".">> \o k) \notin WrittenNow =>
             /\ s \in DOMAIN ps'.st.sections
             /\ k \in DOMAIN ps'.st.sections[s]
             /\ ps'.st.sections[s][k] = ps.st.sections[s][k]
             /\ Result(Get("string", ps'.st.sections, s \o <<".">> \o k))
                   = StrOk(ps.st.sections[s][k]) ]_vars

\* C2 witness: the second source wrote a key of a section in which the first
\* source had written another key, a third key lives in another section, and
\* all three are in the store with the values written.
C2_Witness ==
    /\ ps.src = 2
    /\ \E k1, k2, k3 \in DOMAIN log :
          /\ k1 # k2
          /\ parseConfigKey(k1).section = parseConfigKey(k2).section
          /\ parseConfigKey(k3).section # parseConfigKey(k1).section
          /\ log[k1].src = 2 /\ log[k2].src = 1 /\ log[k3].src = 1
          /\ \A k \in {k1, k2, k3} :
                Result(Get("string", ps.st.sections, k)) = StrOk(log[k].value)

\* C4: a read that ran while reloads ran returns what it would return from
\* the one whole store that was handed over last when it took its lock, the
\* store before a reload or the store a reload built; a reload builds its
\* store without holding the lock, replaces sections and sources while it
\* holds the write lock, and no half-replaced store is there when the lock is
\* free or held by a reader.
C4_AtomicSwap ==
    /\ rd.pc = "done" =>
          Returned(rd.op, rd.sections, rd.sources)
             = Returned(rd.op, rd.atLock.sections, rd.atLock.sources)
    /\ \A p \in Pids :
          /\ rl[p].pc \in {"fallback", "loop", "swap"} => mu.writer # p
          /\ rl[p].pc \in {"locked", "sections-set"} => (mu.writer = p /\ mu.readers = 0)
    /\ mu.writer = 0 => Store(cfg) = pub

\* C4 witness: a Clone returned the whole store of before while a reload,
\* begun on that store, has built a different one and waits for the lock.
C4_Witness ==
    /\ rd.pc = "done"
    /\ rd.op = "Clone"
    /\ \E p \in Pids :
          /\ rl[p].pc = "swap"
          /\ rl[p].before = rd.atLock
          /\ rl[p].newConfig.sections # rd.sections
          /\ rl[p].newConfig.sources # rd.sources
    /\ [sections |-> rd.sections, sources |-> rd.sources] = rd.atLock

\* a decimal literal of a signed type: an optional sign and digits; of an
\* unsigned type: digits
IsDecimal(T, v) ==
    LET body == IF T \in {"int8", "int16"} /\ v # <<>> /\ v[1] \in {"+", "-"}
                THEN Tail(v) ELSE v IN
    body # <<>> /\ \A i \in DOMAIN body : body[i] \in Digits

\* the number that the digits d denote
RECURSIVE DigitsValue(_)
DigitsValue(d) ==
    IF d = <<>> THEN 0
    ELSE 10 * DigitsValue(SubSeq(d, 1, Len(d) - 1)) + DigitVal(d[Len(d)])

\* the number that a decimal literal denotes
DecimalValue(v) ==
    IF v[1] = "-" THEN -DigitsValue(Tail(v))
    ELSE IF v[1] = "+" THEN DigitsValue(Tail(v))
    ELSE DigitsValue(v)

\* C11: the conversion to an N-bit integer type succeeds exactly for the
\* decimal literals of a number in the range of the type and then gives that
\* number; for every other literal, malformed or out of range, it fails with
\* InvalidValue and gives zero, never a wrapped or cut number.
C11_IntWidths ==
    (res.op = "convert" /\ res.arg.T \in {"int8", "int16", "uint8", "uint16"}) =>
        IF IsDecimal(res.arg.T, res.arg.value)
           /\ DecimalValue(res.arg.value) \in RangeOf(res.arg.T)
        THEN res.ok /\ res.val = DecimalValue(res.arg.value)
        ELSE ~res.ok /\ res.err.err = ErrInvalidValue /\ res.val = 0

\* C11 witness: 128 was refused as an int8.
C11_Witness ==
    /\ res.op = "convert"
    /\ res.arg.T = "int8"
    /\ res.arg.value = <<"1", "2", "8">>
    /\ ~res.ok
    /\ res.err.err = ErrInvalidValue

\* the section that a header of these parts names in the store
SectionOf(name, sub) == IF sub.has THEN name \o <<".">> \o sub.text ELSE name

\* the entries of a store as (section, key, value)
Entries(sections) ==
    UNION { { <<sec, k, sections[sec][k]>> : k \in DOMAIN sections[sec] } :
            sec \in DOMAIN sections }

\* the last line read was a key-value line under a header
KeyValueRead == res.op = "line" /\ res.arg.kind = "keyvalue" /\ res.arg.name # <<>>

\* C12: a key-value line under [name] is stored in section name, and under
\* [name "sub"] in section name.sub, the quotes stripped, under its key, and
\* changes no other entry; the value is retrievable by name.key, respectively
\* name.sub.key.  A line with a plain value is always accepted.
C12_ComposedKey ==
    (KeyValueRead /\ (res.arg.sub.has => Ident(res.arg.sub.text))) =>
        LET sec == SectionOf(res.arg.name, res.arg.sub)
            key == res.arg.key
            g   == Get("string", cfg.sections, sec \o <<".">> \o key) IN
        /\ res.arg.raw = <<"v">> => res.ok
        /\ res.ok =>
             /\ sec \in DOMAIN cfg.sections
             /\ key \in DOMAIN cfg.sections[sec]
             /\ res.arg.raw = <<"v">> => cfg.sections[sec][key] = <<"v">>
             /\ g.err = NoErr
             /\ g.val = cfg.sections[sec][key]
             /\ { e \in Entries(cfg.sections) : e[1] # sec \/ e[2] # key }
                = { e \in Entries(res.before.sections) : e[1] # sec \/ e[2] # key }

\* C12 witness: under [r "o"], the line u-1 = v was stored in section r.o.
C12_Witness ==
    /\ KeyValueRead
    /\ res.arg.name = <<"r">>
    /\ res.arg.sub = [has |-> TRUE, text |-> <<"o">>]
    /\ res.arg.key = <<"u", "-", "1">>
    /\ res.ok
    /\ <<"r", ".", "o">> \in DOMAIN cfg.sections
    /\ cfg.sections[<<"r", ".", "o">>][<<"u", "-", "1">>] = <<"v">>

\* C13: under a header with a quoted subsection of any text, a key-value
\* line with a valid key and a plain value is stored: the line raises no
\* InvalidKeyFormat error and the read goes on.
C13_AnySubsection ==
    (KeyValueRead /\ res.arg.sub.has /\ res.arg.raw = <<"v">>) =>
        /\ res.ok
        /\ res.err.err # ErrInvalidKeyFormat
        /\ \E e \in Entries(cfg.sections) : e[2] = res.arg.key /\ e[3] = <<"v">>

\* a text wrapped in a pair of double quotes
Wrapped(t) == Len(t) >= 2 /\ t[1] = "\"" /\ t[Len(t)] = "\""

\* the text with each \" and \\ replaced by the character after the backslash
RECURSIVE Unescaped(_)
Unescaped(t) ==
    IF t = <<>> THEN <<>>
    ELSE IF t[1] = "\\" /\ Len(t) >= 2 /\ t[2] \in {"\"", "\\"}
    THEN <<t[2]>> \o Unescaped(SubSeq(t, 3, Len(t)))
    ELSE <<t[1]>> \o Unescaped(Tail(t))

\* the value that a raw value is stored as
Normalised(raw) ==
    LET t == TrimSpace(raw) IN
    IF Wrapped(t) THEN Unescaped(SubSeq(t, 2, Len(t) - 1)) ELSE t

\* C14: the value stored by an accepted key-value line is the raw value
\* trimmed and, when the trimmed text is wrapped in double quotes, unquoted:
\* the quotes dropped, the escapes replaced, inner white space kept; a trimmed
\* text that is not wrapped is stored as it is.
C14_ValueNormalised ==
    (KeyValueRead /\ res.ok /\ (res.arg.sub.has => Ident(res.arg.sub.text))) =>
        cfg.sections[SectionOf(res.arg.name, res.arg.sub)][res.arg.key]
            = Normalised(res.arg.raw)

\* C14 witness: the raw value "a \"b\" c" was stored as a "b" c.
C14_Witness ==
    /\ KeyValueRead
    /\ res.ok
    /\ ~res.arg.sub.has
    /\ res.arg.raw = <<"\"", "a", " ", "\\", "\"", "b", "\\", "\"", " ", "c", "\"">>
    /\ cfg.sections[res.arg.name][res.arg.key] = <<"a", " ", "\"", "b", "\"", " ", "c">>

\* a raw value that opens a quote and does not close it, or whose quotes
\* hold a backslash before a character that is no escape
BadQuoting(raw) ==
    LET t == TrimSpace(raw) IN
    /\ t # <<>>
    /\ t[1] = "\""
    /\ \/ ~Wrapped(t)
       \/ \E i \in 2..(Len(t) - 2) : t[i] = "\\" /\ t[i + 1] = "q"

\* C15: a key-value line whose value has an unterminated quote or a malformed
\* escape inside quotes fails with InvalidValue and leaves the store as it was.
C15_BadQuotingFails ==
    (KeyValueRead /\ BadQuoting(res.arg.raw)) =>
        /\ ~res.ok
        /\ res.err.err = ErrInvalidValue
        /\ cfg.sections = res.before.sections

\* the key has no dot
NoDot(key) == \A i \in DOMAIN key : key[i] # "."

\* C16: a key with no dot fails with InvalidKeyFormat on every path: no set
\* of it succeeds (log holds the keys of the sets that did), a failed set of
\* it returns the error and leaves the store as it was, a Get of it returns
\* the error, and a key-value line with a well-formed value read before any
\* header ends the read with the error and stores nothing.
C16_NoDotKey ==
    [][ /\ \A key \in DOMAIN log' : ~NoDot(key)
        /\ (res'.op = "set" /\ ~res'.ok /\ NoDot(res'.err.key)) =>
              /\ res'.err.err = ErrInvalidKeyFormat
              /\ cfg'.sections = cfg.sections
        /\ (res'.op = "get" /\ NoDot(res'.arg.key)) =>
              /\ ~res'.ok
              /\ res'.err.err = ErrInvalidKeyFormat
              /\ cfg'.sections = cfg.sections
        /\ (res'.op = "line" /\ res'.arg.kind = "keyvalue" /\ res'.arg.name = <<>>
            /\ NoDot(res'.arg.key)
            /\ processQuotedValue(TrimSpace(res'.arg.raw)).err = NoErr) =>
              /\ ~res'.ok
              /\ res'.err.err = ErrInvalidKeyFormat
              /\ res'.err.key = res'.arg.key
              /\ cfg'.sections = cfg.sections ]_vars

\* C16 witness: the line x = v, read before any header, ended the read with
\* InvalidKeyFormat.
C16_Witness ==
    /\ res.op = "line"
    /\ res.arg.kind = "keyvalue"
    /\ res.arg.name = <<>>
    /\ res.arg.key = <<"x">>
    /\ res.arg.raw = <<"v">>
    /\ ~res.ok
    /\ res.err.err = ErrInvalidKeyFormat

\* the positions of the dots of a key
DotsOf(key) == { i \in DOMAIN key : key[i] = "." }

\* the least of a set of positions
Least(S) == CHOOSE i \in S : \A j \in S : i <= j

\* C17: the decomposition of a key with a dot cuts it at its second dot when
\* it has one and at its only dot otherwise: the section is the text before
\* the cut and the key name all of the text after it, further dots included
\* (a.b -> (a, b), a.b.c -> (a.b, c), a.b.c.d -> (a.b, c.d)).
C17_OneLevel ==
    (res.op = "parsekey" /\ DotsOf(res.arg.key) # {}) =>
        LET key  == res.arg.key
            d1   == Least(DotsOf(key))
            rest == DotsOf(key) \ {d1}
            cut  == IF rest = {} THEN d1 ELSE Least(rest) IN
        /\ res.val.err = NoErr
        /\ res.val.section = SubSeq(key, 1, cut - 1)
        /\ res.val.keyName = SubSeq(key, cut + 1, Len(key))

\* C17 witness: a.a.a.a was decomposed into the section a.a and the key a.a.
C17_Witness ==
    /\ res.op = "parsekey"
    /\ res.arg.key = <<"a", ".", "a", ".", "a", ".", "a">>
    /\ res.val.section = <<"a", ".", "a">>
    /\ res.val.keyName = <<"a", ".", "a">>

\* the step is a load that returns what LoadLocal(GoodRepo) returns on the
\* files: a Config
LoadLocalReturns ==
    /\ ~cfg.loaded
    /\ res'.op = "load"
    /\ res'.ok
    /\ LoadLocal(GoodRepo, fs).ok
    /\ res'.config = LoadLocal(GoodRepo, fs).config
    /\ res'.opened = LoadLocal(GoodRepo, fs).opened

\* the entries that the local file of the repository alone defines
LocalEntries(f) ==
    IF Exists(f, LocalPath(GoodRepo))
    THEN Entries(parseConfigFile(LocalPath(GoodRepo), EmptyMap, f).sections)
    ELSE {}

\* C18: the Config that LoadLocal(repoPath) returns holds the local file
\* only: every recorded source has type Local, and every entry of the store
\* is one the local file defines.
C18_LoadLocalOnlyLocal ==
    [][ LoadLocalReturns =>
          /\ \A i \in DOMAIN res'.config.sources :
                res'.config.sources[i].Type = SourceTypeLocal
          /\ Entries(res'.config.sections) \subseteq LocalEntries(fs) ]_vars

\* the precedence of a source type: a higher one overrides a lower one
Rank(type) == CASE type = SourceTypeSystem   -> 1
                [] type = SourceTypeGlobal   -> 2
                [] type = SourceTypeLocal    -> 3
                [] type = SourceTypeWorktree -> 4

\* the writes of each readable file, lines in file order
WritesOfFile == [name \in {"A", "B", "C", "Bad"} |-> WritesFrom(FileText(name), 1)]

\* the writes of the file of one source
FileWrites(source, f) == WritesOfFile[f[source.Path]]

\* the sources of the list whose file writes the key
Defining(S, f, key) ==
    { i \in DOMAIN S : \E n \in DOMAIN FileWrites(S[i], f) : FileWrites(S[i], f)[n].key = key }

\* the keys that the files of the sources write
KeysWritten(S, f) ==
    UNION { { FileWrites(S[i], f)[n].key : n \in DOMAIN FileWrites(S[i], f) } : i \in DOMAIN S }

\* the value of the last line of the file of the source that writes the key
LastValue(source, f, key) ==
    LET W == FileWrites(source, f) IN
    W[Max({ n \in DOMAIN W : W[n].key = key })].value

\* C19: after a successful load, whatever the order of the options of the
\* call, the recorded sources are in the order System, Global, Local,
\* Worktree, they are the files that were parsed, in the order they were
\* parsed, and every key that the files write holds the value that the source
\* of the highest precedence among those writing it gives it.
C19_FixedOrder ==
    (res.op = "load" /\ res.ok) =>
        LET S == res.config.sources IN
        /\ \A i, j \in DOMAIN S : i < j => Rank(S[i].Type) < Rank(S[j].Type)
        /\ res.opened = [i \in DOMAIN S |-> S[i].Path]
        /\ \A key \in KeysWritten(S, res.fsAt) :
              LET top == CHOOSE i \in Defining(S, res.fsAt, key) :
                            \A j \in Defining(S, res.fsAt, key) :
                                Rank(S[j].Type) <= Rank(S[i].Type) IN
              Result(Get("string", res.config.sections, key))
                 = StrOk(LastValue(S[top], res.fsAt, key))

\* C19 witness: the system, global and local files were loaded, the global
\* and the local file give core.editor different values, and the store holds
\* the local one.
C19_Witness ==
    /\ res.op = "load" /\ res.ok
    /\ Len(res.config.sources) = 3
    /\ res.config.sources[1].Type = SourceTypeSystem
    /\ res.config.sources[2].Type = SourceTypeGlobal
    /\ res.config.sources[3].Type = SourceTypeLocal
    /\ LET key == <<"c", "o", "r", "e", ".", "e", "d", "i", "t", "o", "r">> IN
       /\ Defining(res.config.sources, res.fsAt, key) = {1, 2, 3}
       /\ LastValue(res.config.sources[2], res.fsAt, key)
             # LastValue(res.config.sources[3], res.fsAt, key)
       /\ Result(Get("string", res.config.sections, key))
             = StrOk(LastValue(res.config.sources[3], res.fsAt, key))

\* what makes a source fail: a file that cannot be opened, and the file with
\* a line of an invalid key
FailingFiles == {NoAccess, "Bad"}

\* C20: when a source of a load cannot be opened or parsed, the load returns
\* the error of that source and no Config, the caller is left without a
\* store, and the failed source is the last one that was opened.
C20_FailFast ==
    (res.op = "load"
     /\ \E i \in DOMAIN res.opened : res.fsAt[res.opened[i]] \in FailingFiles) =>
        /\ ~res.ok
        /\ res.err.err # NoErr
        /\ res.config = NewConfig
        /\ cfg = Unloaded
        /\ pub = NewConfig
        /\ \A i \in DOMAIN res.opened :
              res.fsAt[res.opened[i]] \in FailingFiles =>
                 /\ i = Len(res.opened)
                 /\ res.err.source = res.opened[i]

\* C20 witness: LoadAll on files of which the local one has a bad line and
\* the worktree one exists returned the error of the local file at its line
\* 3, having opened the system, the global and the local file only.
C20_Witness ==
    /\ res.op = "load"
    /\ ~res.ok
    /\ res.fsAt[LocalPath(GoodRepo)] = "Bad"
    /\ res.fsAt[WorktreePath(GoodRepo)] = "C"
    /\ res.opened = <<SystemConfigFile, GlobalConfigFile, LocalPath(GoodRepo)>>
    /\ res.opened = LoadAll(GoodRepo, res.fsAt).opened
    /\ res.err = LoadAll(GoodRepo, res.fsAt).err
    /\ res.err.err = ErrInvalidKeyFormat
    /\ res.err.line = 3
    /\ res.config = NewConfig

\* C21: Has(key) is true exactly when the key is in the store, that is when
\* Get of it as a string succeeds; keys of three segments included.
C21_HasIffGet ==
    res.op = "has" =>
        (res.val <=> Get("string", cfg.sections, res.arg.key).err = NoErr)

\* what the caller's copy holds: the two-level map, the one-level map and the
\* sources it was given
CopyValue(heap, r) ==
    [sections |-> IF r.sections = 0 THEN EmptyMap ELSE MapValue(heap, r.sections),
     section  |-> IF r.n = 0 THEN EmptyMap ELSE heap[r.n],
     sources  |-> IF r.sources = 0 THEN <<>> ELSE heap[r.sources]]

\* what the original holds
OriginalValue(heap, c) ==
    [sections |-> MapValue(heap, c.sections), sources |-> heap[c.sources]]

\* C22: Clone, GetAll, GetSection and GetSources give the caller the
\* original's content and leave the original as it was; afterwards a write
\* to the original's maps or a reload of the original leaves the copy as it
\* was, and a change the caller makes to the copy leaves the original's
\* sections and sources as they were.
C22_DeepCopies ==
    [][ /\ res'.op = "copy" =>
              /\ OriginalValue(log', cfg') = OriginalValue(log, cfg)
              /\ rd'.op \in {"Clone", "GetAll"} =>
                    CopyValue(log', rd').sections = OriginalValue(log, cfg).sections
              /\ rd'.op \in {"Clone", "GetSources"} =>
                    CopyValue(log', rd').sources = OriginalValue(log, cfg).sources
              /\ rd'.op = "GetSection" =>
                    \/ CopyValue(log', rd').section = EmptyMap
                    \/ \E sec \in DOMAIN OriginalValue(log, cfg).sections :
                          CopyValue(log', rd').section = OriginalValue(log, cfg).sections[sec]
        /\ (res'.op \in {"write-original", "reload"} /\ rd.pc = "done") =>
              CopyValue(log', rd') = CopyValue(log, rd)
        /\ res'.op = "write-copy" =>
              OriginalValue(log', cfg') = OriginalValue(log, cfg) ]_vars

\* C22 witness: a Clone was taken of the Config of file A, then core.editor
\* was written in the original's map; the clone still holds vim and the
\* original the written value.
C22_Witness ==
    /\ rd.pc = "done"
    /\ rd.op = "Clone"
    /\ res.op = "write-original"
    /\ LET ed == <<"e", "d", "i", "t", "o", "r">>
           co == <<"c", "o", "r", "e">> IN
       /\ co \in DOMAIN CopyValue(log, rd).sections
       /\ CopyValue(log, rd).sections[co][ed] = <<"v", "i", "m">>
       /\ OriginalValue(log, cfg).sections[co][ed] = <<"w">>

-----------------------------------------------------------------------------
\* the paths of a list of sources
PathsOf(sources) == [i \in DOMAIN sources |-> sources[i].Path]

\* a load returned the context's error: no Config, and the files parsed are
\* the ones before the source the check stopped at, each one whole
LoadCancelled(r, c) ==
    /\ ~r.ok
    /\ r.config = NewConfig
    /\ c = Unloaded
    /\ Len(r.opened) < Len(r.selected)
    /\ r.opened = SubSeq(PathsOf(r.selected), 1, Len(r.opened))
    /\ \A i \in DOMAIN r.opened :
          parseConfigFile(r.opened[i], EmptyMap, r.fsAt).err.err = NoErr

\* the step of reloader p that is the ctx check before a source
AtCheck(p) ==
    /\ rl[p].pc = "loop"
    /\ rl[p].i <= Len(rl[p].sources)
    /\ rl'[p] # rl[p]
    /\ rl'[p].ctxDone = rl[p].ctxDone

-----------------------------------------------------------------------------
\* the origin of a record: the text between "file:" and the first TAB
RecordOrigin(rec) ==
    IF HasPrefix(rec, FilePrefix) /\ Contains(rec, "\t")
    THEN SubSeq(rec, Len(FilePrefix) + 1, Index(rec, "\t") - 1)
    ELSE <<>>

\* the <key>=<value> part of a record, empty when the record has neither form
RecordBody(rec) ==
    IF ~HasPrefix(rec, FilePrefix) THEN rec
    ELSE IF Contains(rec, "\t") THEN SubSeq(rec, Index(rec, "\t") + 1, Len(rec))
    ELSE <<>>

\* the key of a record, empty when the record yields none
RecordKey(rec) ==
    IF Contains(RecordBody(rec), "=")
    THEN TrimSpace(SubSeq(RecordBody(rec), 1, Index(RecordBody(rec), "=") - 1))
    ELSE <<>>

\* the value of a record: everything after the first '='
RecordValue(rec) ==
    SubSeq(RecordBody(rec), Index(RecordBody(rec), "=") + 1, Len(RecordBody(rec)))

\* the records of an output that are not skipped
Kept(recs) == { i \in DOMAIN recs : RecordKey(recs[i]) # <<>> }

\* the kept records whose key the set operation refuses
Refused(recs) ==
    { i \in Kept(recs) :
        setRawValue(EmptyMap, RecordKey(recs[i]), RecordValue(recs[i])).err # NoErr }

\* the entries of a store as (dotted key, value)
Flat(sections) == { <<e[1] \o <<".">> \o e[2], e[3]>> : e \in Entries(sections) }

\* what the records leave when none is refused: for each key the value of
\* its last record
LastRecords(recs) ==
    { <<RecordKey(recs[i]), RecordValue(recs[i])>> :
        i \in { j \in Kept(recs) :
                  \A l \in Kept(recs) : RecordKey(recs[l]) = RecordKey(recs[j]) => l <= j } }

\* for each output of the command, the records that are refused and what
\* the kept records leave
RecordsOf == [g \in GitOutputs |-> [refused |-> Refused(g), last |-> LastRecords(g)]]

\* C24: a load through the external command takes the records of the output
\* in order: `file:<origin>` TAB `<key>=<value>` and `<key>=<value>` give the
\* key, the value after the first '=' and the origin (empty for the bare
\* form); empty records and records without a key are skipped; the others
\* go through the set operation, so that the Config holds for each key the
\* value of its last record, and the first record whose key is refused ends
\* the load with no Config and an error of operation "parse" that carries
\* the key and, as Source, the origin of that record.
C24_GitRecords ==
    (res.op = "load" /\ res.arg # <<>>) =>
        IF RecordsOf[res.arg].refused = {}
        THEN /\ res.ok /\ res.err = NoError
             /\ Flat(res.config.sections) = RecordsOf[res.arg].last
             /\ res.config.sources = <<>>
        ELSE LET i == Least(RecordsOf[res.arg].refused) IN
             /\ ~res.ok /\ res.config = NewConfig
             /\ res.err.op = "parse"
             /\ res.err.err = setRawValue(EmptyMap, RecordKey(res.arg[i]),
                                          RecordValue(res.arg[i])).err
             /\ res.err.key = RecordKey(res.arg[i])
             /\ res.err.source = RecordOrigin(res.arg[i])

\* a load of bare records with an empty record, a record without '=', a
\* value that holds '=', a value that starts with a space and a key given
\* twice
C24_Witness ==
    /\ res.op = "load" /\ res.ok
    /\ \E i \in DOMAIN res.arg : res.arg[i] = <<>>
    /\ \E i \in DOMAIN res.arg : res.arg[i] # <<>> /\ ~Contains(res.arg[i], "=")
    /\ \E e \in Flat(res.config.sections) : Contains(e[2], "=")
    /\ \E e \in Flat(res.config.sections) : e[2] # <<>> /\ e[2][1] = " "
    /\ Cardinality(Kept(res.arg)) > Cardinality(LastRecords(res.arg))

\* a load that a record of origin l with an undotted key ended
C24_WitnessRefused ==
    /\ res.op = "load" /\ ~res.ok
    /\ res.arg # <<>>
    /\ res.err.source = <<"l">>
    /\ res.err.err = ErrInvalidKeyFormat
    /\ cfg = Unloaded

-----------------------------------------------------------------------------
\* C25: section and key names are compared as they are written, with no
\* case folding: Get[string] of a dotted key succeeds exactly when the store
\* holds an entry whose section and key spell the key letter for letter,
\* and returns that entry's value; a key that matches a stored entry only
\* when case is ignored fails with SectionNotFound when the store has no
\* section spelled as the key's section, and with KeyNotFound when the
\* section is there and only the key name differs in case.
C25_CaseSensitive ==
    (res.op = "get" /\ res.arg.T = "string" /\ Contains(res.arg.key, ".")) =>
        LET k     == res.arg.key
            exact == { e \in Flat(cfg.sections) : e[1] = k } IN
        /\ res.ok <=> exact # {}
        /\ res.ok => res.val \in { e[2] : e \in exact }
        /\ \A sec \in DOMAIN cfg.sections : \A name \in DOMAIN cfg.sections[sec] :
              LET stored == sec \o <<".">> \o name
                  ksec   == SubSeq(k, 1, Len(sec)) IN
              (stored # k /\ ToLower(stored) = ToLower(k) /\ exact = {}) =>
                  /\ ~res.ok
                  /\ ksec \notin DOMAIN cfg.sections => res.err.err = ErrSectionNotFound
                  /\ ksec = sec => res.err.err = ErrKeyNotFound

\* a store that holds A.a only, asked for a.a: no such section
C25_Witness ==
    /\ res.op = "get" /\ res.arg.T = "string"
    /\ res.arg.key = <<"a", ".", "a">>
    /\ Flat(cfg.sections) = { << <<"A", ".", "a">>, <<"x", " ", "y">> >> }
    /\ res.err.err = ErrSectionNotFound

\* a store that holds a.a only, asked for a.A: no such key
C25_WitnessKey ==
    /\ res.op = "get" /\ res.arg.T = "string"
    /\ res.arg.key = <<"a", ".", "A">>
    /\ DOMAIN cfg.sections = { <<"a">> }
    /\ res.err.err = ErrKeyNotFound

-----------------------------------------------------------------------------
\* the step reads this line of the current source
Reads(line) ==
    /\ ps.src \in 1..MaxSources
    /\ ps'.src = ps.src
    /\ ps'.st = parseLine(ps.st, line, SourceOrder[ps.src])

\* what stands between the brackets of a header line, trimmed
HeaderContent(line) ==
    LET t == TrimSpace(line) IN TrimSpace(SubSeq(t, 2, Len(t) - 1))

\* the dotted key under which a key written in a section is stored
Scoped(section, key) == IF section = <<>> THEN key ELSE section \o <<".">> \o key

\* C26: the active section of the parser is the trimmed content of the most
\* recent header of the source being read, and empty when the source has had
\* none: it is empty before the first line of every source, a header line
\* replaces it, every other line leaves it as it is, and a key-value line
\* that is stored is stored under the section active when it is read.
C26_SectionScope ==
    [][ /\ ps'.st.lineNumber = 0 => ps'.st.currentSection = <<>>
        /\ ps'.src # ps.src => ps'.st.currentSection = <<>>
        /\ \A line \in LineCatalogue :
              Reads(line) =>
                /\ IsHeaderLine(line) => ps'.st.currentSection = HeaderContent(line)
                /\ ~IsHeaderLine(line) => ps'.st.currentSection = ps.st.currentSection
                /\ (IsKeyValueLine(line) /\ ps'.st.err.err = NoErr) =>
                      LET key == Scoped(ps.st.currentSection,
                                        TrimSpace(KeyValueMatch(line).key)) IN
                      /\ key \in DOMAIN log'
                      /\ Result(Get("string", ps'.st.sections, key))
                            = StrOk(TrimSpace(KeyValueMatch(line).value))
      ]_vars

\* the second source stores x as a top-level key although the first source
\* ended inside section b, where it had stored b.x
C26_Witness ==
    /\ ps.src = 2
    /\ ps.st.currentSection = <<>>
    /\ ps.st.lineNumber >= 1
    /\ <<"b", ".", "x">> \in DOMAIN log /\ log[<<"b", ".", "x">>].src = 1
    /\ ps.st.err.err = ErrInvalidKeyFormat

-----------------------------------------------------------------------------
\* a line that is blank, a comment, or neither a header nor a key-value line
NoOpLine(line) ==
    \/ TrimSpace(line) = <<>>
    \/ TrimSpace(line)[1] \in {"#", ";"}
    \/ ~IsHeaderLine(line) /\ ~IsKeyValueLine(line)

\* C27 as stated: a blank line, a comment line or a line that is neither a
\* header nor a key-value line leaves the parser as if the line were not in
\* the source.
C27_NoOpLinesRemovable ==
    [][ \A line \in LineCatalogue :
          (NoOpLine(line) /\ Reads(line)) => ps'.st = ps.st ]_vars

\* C27, amended: a blank line, a comment line (first non-blank character '#'
\* or ';', whatever follows) or a line that is neither a header nor a
\* key-value line leaves the store, the active section and the error as
\* they are, and counts as a line: it adds one to the line number that the
\* error of a later line reports.
C27_NoOpLines ==
    [][ \A line \in LineCatalogue :
          (NoOpLine(line) /\ Reads(line)) =>
              /\ ps'.st.sections = ps.st.sections
              /\ ps'.st.currentSection = ps.st.currentSection
              /\ ps'.st.err = ps.st.err /\ ps'.st.err.err = NoErr
              /\ ps'.st.lineNumber = ps.st.lineNumber + 1 ]_vars

\* a source of which two lines did nothing and the third failed: the error
\* names line 3
C27_Witness ==
    /\ ps.src = 1
    /\ ps.st.sections = EmptyMap
    /\ ps.st.currentSection = <<>>
    /\ ps.st.err.err # NoErr
    /\ ps.st.err.line = 3

-----------------------------------------------------------------------------
\* the value of a key-value line is a quoted value that does not unquote
BadValue(line) ==
    processQuotedValue(TrimSpace(KeyValueMatch(line).value)).err # NoErr

\* the key a failing key-value line is reported with: the key as written
\* when its value is refused, the composed key when the key is
Offending(section, line) ==
    IF BadValue(line) THEN TrimSpace(KeyValueMatch(line).key)
    ELSE Scoped(section, TrimSpace(KeyValueMatch(line).key))

\* a key-value line read in this section fails
LineFails(section, line) ==
    \/ BadValue(line)
    \/ setRawValue(EmptyMap, Offending(section, line), <<>>).err # NoErr

\* C28: every line read adds one to the line number, which starts at zero in
\* each source; when a key-value line has a value that does not unquote or
\* composes to a key that is refused, the parse of the source ends at that
\* line with an error of operation "parse" that carries the offending key,
\* the source and the number of the line, the store is as it was before the
\* line, and no later line is read.
C28_ParseErrorAtLine ==
    [][ /\ ps'.src # ps.src => ps'.st.lineNumber = 0
        /\ ps.st.err.err # NoErr => ps' = ps
        /\ \A line \in LineCatalogue :
              Reads(line) =>
                /\ ps'.st.lineNumber = ps.st.lineNumber + 1
                /\ (IsKeyValueLine(line) /\ LineFails(ps.st.currentSection, line)) =>
                      /\ ps'.st.err.err # NoErr
                      /\ ps'.st.err.op = "parse"
                      /\ ps'.st.err.key = Offending(ps.st.currentSection, line)
                      /\ ps'.st.err.source = SourceOrder[ps.src]
                      /\ ps'.st.err.line = ps.st.lineNumber + 1
                      /\ ps'.st.sections = ps.st.sections
                /\ (IsKeyValueLine(line) /\ ~LineFails(ps.st.currentSection, line)) =>
                      ps'.st.err.err = NoErr
      ]_vars

\* the second source failed at its third line, a quoted value, after the
\* first source had stored a key
C28_Witness ==
    /\ ps.src = 2
    /\ ps.st.err.err = ErrSyntax
    /\ ps.st.err.key = <<"y">>
    /\ ps.st.err.source = GlobalConfigFile
    /\ ps.st.err.line = 3
    /\ ps.st.sections # EmptyMap

-----------------------------------------------------------------------------
\* C29: in every store that lines of a file and direct sets build, a section
\* name has at most one '.', a key name has none, and the dotted key made of
\* a section and a key of it decomposes into that section and that key;
\* so every key that GetKeys lists is found by Get[string], which returns the
\* stored value; a key of four or more segments is refused with
\* InvalidKeyFormat, whether composed from a header and a line or set
\* directly, and is never in the store.
C29_StoreShape ==
    /\ \A sec \in DOMAIN cfg.sections :
          /\ Cardinality(DotsOf(sec)) <= 1
          /\ \A k \in DOMAIN cfg.sections[sec] :
                /\ DotsOf(k) = {}
                /\ parseConfigKey(sec \o <<".">> \o k)
                      = [section |-> sec, keyName |-> k, err |-> NoErr]
                /\ (sec \o <<".">> \o k) \in GetKeys(cfg.sections)
    /\ \A key \in GetKeys(cfg.sections) : Cardinality(DotsOf(key)) \in {1, 2}
    /\ (res.op = "get" /\ res.arg.key \in GetKeys(cfg.sections)) =>
          /\ res.ok
          /\ \E e \in Entries(cfg.sections) :
                e[1] \o <<".">> \o e[2] = res.arg.key /\ res.val = e[3]
    /\ (res.op = "get" /\ Cardinality(DotsOf(res.arg.key)) >= 3) => ~res.ok
    /\ (res.op = "set" /\ ~res.ok /\ Cardinality(DotsOf(res.err.key)) >= 3) =>
          res.err.err = ErrInvalidKeyFormat
    /\ (res.op = "line" /\ res.arg.kind = "keyvalue" /\ res.arg.name # <<>>
           /\ processQuotedValue(TrimSpace(res.arg.raw)).err = NoErr
           /\ Cardinality(DotsOf(SectionOf(res.arg.name, res.arg.sub))) >= 2) =>
          /\ ~res.ok
          /\ res.err.err = ErrInvalidKeyFormat
          /\ cfg.sections = res.before.sections

\* a key listed by GetKeys of a store with a dotted section was read back,
\* after a line under a header with a dotted subsection had been refused
C29_Witness ==
    /\ res.op = "get" /\ res.ok
    /\ res.arg.key = <<"r", ".", "o", ".", "x">>
    /\ res.arg.key \in GetKeys(cfg.sections)
    /\ Cardinality(DOMAIN cfg.sections) >= 2

\* a set of a key of four segments was refused
C29_WitnessRefused ==
    /\ res.op = "set" /\ ~res.ok
    /\ res.err.key = <<"r", ".", "o", ".", "x", ".", "x">>
    /\ res.err.err = ErrInvalidKeyFormat
    /\ cfg.sections # EmptyMap

-----------------------------------------------------------------------------
\* what a reload of these sources builds when it reads all of them on the
\* file system f
Built(sources, f) == parseSources(sources, 1, NewConfig, <<>>, f, Len(sources))

\* the store handed over last is the one a reload builds from the files as
\* they are now, after their first change
HoldsNewest ==
    /\ writes = 1
    /\ Built(pub.sources, fs).err.err = NoErr
    /\ pub = Built(pub.sources, fs).config

\* C30: reloads that overlap do not take the store back: once the files
\* have changed and a reload has handed over the store built from the
\* changed files, no reload that read the files before the change replaces
\* it, so that after both reloads returned the store is the one read last;
\* and whenever the lock is free the sections and sources of the Config are
\* those of one build.
C30_NoRegress ==
    [][ /\ (HoldsNewest /\ fs' = fs) => pub' = pub
        /\ (mu'.writer = 0) => Store(cfg') = pub' ]_vars

====
